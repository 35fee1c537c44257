--------------------------- MODULE SurfaceMission ---------------------------
(***************************************************************************)
(* The autonomous surface mission (rover/autonomous_surface_mission):      *)
(* plan the next target, drive to it, observe, and send the product all    *)
(* the way to the ground before the target counts.  Planning is            *)
(* rover/dynamic_multi_objective_mission_planner, a drive is a leg of      *)
(* RoverLeg as far as its end tells (EndAgrees; LegTells of RoverNavigation*)
(* shows it), the archives and the relay are those of ScienceFiles.  An    *)
(* iteration of the loop is one step, in which the process may end at any  *)
(* write of a file.                                                        *)
(***************************************************************************)
EXTENDS ScienceFiles, RoverLeg

CONSTANTS
    FullBattery,       \* available energy of a rover that was let down, in units
    ReserveEnergy,     \* reserve_energy_wh
    ScienceEnergy,     \* science_energy_wh
    TargetLimits,      \* the max_targets it may be configured with; 0 is no limit
    RouteEnergies,     \* what the way to a target and its own demand may cost
    MaxRuns            \* bound: calls of execute()

ASSUME SurfaceAssumption ==
    /\ FullBattery \in Nat /\ ReserveEnergy \in Nat /\ ScienceEnergy \in Nat \ {0}
    /\ TargetLimits \subseteq Nat /\ RouteEnergies \subseteq Nat /\ MaxRuns \in Nat
    /\ IsFiniteSet(Sites)

VARIABLES
    holdings,          \* the archives the mission was built with
    built,             \* history: the products built so far
    survey,            \* the mission's locals and its result
    knowledge,         \* observation_count of the knowledge base, by target
    runs               \* bound: calls so far

surfaceVars == <<holdings, built, survey, knowledge, runs>>

SurveyPhases == {"idle", "surveying", "over"}
RoverModeAtRest == LegModes \union {"Stowed"}

\* completed: what the counters count, with the product that was built for it.
SurveyType ==
    [phase : SurveyPhases, mode : RoverModeAtRest, deployed : BOOLEAN, remaining : SUBSET Sites,
     energy : Nat, cycle : Nat, limit : Nat, completed : SUBSET (ProductIds \X (1 .. MaxEditions)),
     targets : Nat, stoppedBy : {"nothing", "energy", "navigation"}, missionCompleted : BOOLEAN]

NewSurvey(mode, energy) ==
    [phase |-> "idle", mode |-> mode, deployed |-> FALSE, remaining |-> {}, energy |-> energy,
     cycle |-> 0, limit |-> 0, completed |-> {}, targets |-> 0, stoppedBy |-> "nothing",
     missionCompleted |-> FALSE]

SurfaceInit ==
    /\ holdings = NoFiles /\ built = 0
    /\ survey = NewSurvey("Stowed", FullBattery)
    /\ knowledge = [site \in Sites |-> 0]
    /\ runs = 0
-----------------------------------------------------------------------------
\* remove_all with its error ignored: any of the files may be left.
Files == {f \in Places \X ProductIds : Has(holdings, f[1], f[2])}
OnlyFiles(kept) ==
    [place \in Places |-> [id \in ProductIds |->
        IF <<place, id>> \in kept THEN holdings[place][id] ELSE Absent]]

\* A rover that is not stowed is a fault, and the files stay.
Execute(targets, most) ==
    /\ survey.phase # "surveying" /\ runs < MaxRuns
    /\ runs' = runs + 1
    /\ IF survey.mode = "Stowed"
       THEN /\ survey' = [NewSurvey("SurfaceReady", survey.energy) EXCEPT
                              !.phase = "surveying", !.deployed = TRUE, !.remaining = targets,
                              !.limit = IF most = 0 \/ most > Cardinality(targets)
                                        THEN Cardinality(targets) ELSE most]
            /\ \E kept \in SUBSET Files : holdings' = OnlyFiles(kept)
       ELSE /\ survey' = [NewSurvey("Fault", survey.energy) EXCEPT !.phase = "over"]
            /\ UNCHANGED holdings
    /\ UNCHANGED <<built, knowledge>>

Spare == IF survey.energy > ReserveEnergy THEN survey.energy - ReserveEnergy ELSE 0

Closing(s) ==
    LET complete == s.remaining = {} /\ s.targets > 0
    IN  [s EXCEPT !.phase = "over", !.missionCompleted = complete,
                  !.mode = IF complete THEN "MissionComplete" ELSE @]

\* The loop ends at its limit or with no target left.
FinishSurvey ==
    /\ survey.phase = "surveying"
    /\ survey.cycle >= survey.limit \/ survey.remaining = {}
    /\ survey' = Closing(survey)
    /\ UNCHANGED <<holdings, built, knowledge, runs>>

\* A new process knows nothing; the files stay.
NothingKnown ==
    /\ survey' = NewSurvey("Stowed", FullBattery)
    /\ knowledge' = [site \in Sites |-> 0]

ProcessEnds == NothingKnown /\ UNCHANGED <<holdings, built, runs>>

GoesOn == survey.phase = "surveying" /\ survey.cycle < survey.limit /\ survey.remaining # {}

StopFor(reason) == survey' = Closing([survey EXCEPT !.stoppedBy = reason])

\* replan() finds no target it can reach with the energy to spare.
NothingFeasible ==
    /\ GoesOn
    /\ StopFor(IF survey.energy <= ReserveEnergy THEN "energy" ELSE "navigation")
    /\ UNCHANGED <<holdings, built, knowledge, runs>>

\* The way is affordable, the observation at its end is not.
TooExpensive(cost) ==
    /\ GoesOn
    /\ cost <= Spare /\ cost + ScienceEnergy > Spare
    /\ StopFor("energy")
    /\ UNCHANGED <<holdings, built, knowledge, runs>>

\* Ends of a leg the rover began ready.
LegEnds == {end \in [mode : LegModes, reached : BOOLEAN, hold : BOOLEAN] : EndAgrees(end)}

GetsStuck(cost, end) ==
    /\ GoesOn /\ cost + ScienceEnergy <= Spare
    /\ ~end.reached \/ end.hold
    /\ survey' = Closing([survey EXCEPT !.mode = end.mode, !.stoppedBy = "navigation"])
    /\ UNCHANGED <<holdings, built, knowledge, runs>>

\* What becomes of the product: saved on the rover, relayed, analysed.  Each
\* part must have gone well for the next to be tried.
AnalysisOf(a, id, report) ==
    {[files |-> s.files, said |-> s.said, report |-> report] : s \in Analysed(a, id)}

\* mutant: a duplicate is as good as a transfer
RelayedWell(report) == (report.toVikram /\ report.toGround) \/ report.duplicate

Arrives(report) == report.toVikram /\ report.toGround

Delivered(id, product) ==
    UNION {IF s.said # "saved" THEN {Result(s.files, s.said, NothingSent)}
           ELSE UNION {IF r.said = "ended" THEN {r}
                       ELSE IF ~Arrives(r.report) THEN {Result(r.files, "failed", r.report)}
                       ELSE AnalysisOf(r.files, id, r.report) :
                          r \in Transmitted(s.files, id)} :
              s \in Saved(holdings, "rover", id, product)}

\* A target reached: the mode is made ready again, whatever it was.  observe() is
\* called without naming a defect, so the observation is valid and usable; ingest()
\* takes every product that was marked stored, as this one was.
Observe(site, cost) ==
    LET id == <<site, survey.cycle + 1>>
        product == Built(built, TRUE)
        ready == [survey EXCEPT !.mode = "SurfaceReady"]
    IN  /\ GoesOn /\ site \in survey.remaining
        /\ cost + ScienceEnergy <= Spare
        /\ survey.cycle + 1 \in Sequences /\ built < MaxEditions
        /\ built' = built + 1
        /\ \E d \in Delivered(id, product) :
              /\ holdings' = d.files
              /\ CASE d.said = "ended" ->
                          NothingKnown
                   [] d.said = "failed" ->
                          /\ survey' = Closing(ready)
                          /\ UNCHANGED knowledge
                   [] OTHER ->
                          /\ knowledge' = [knowledge EXCEPT ![site] = @ + 1]
                          /\ survey' = [ready EXCEPT
                                 !.energy = @ - (cost + ScienceEnergy),
                                 !.remaining = @ \ {site}, !.cycle = @ + 1, !.targets = @ + 1,
                                 !.completed = @ \union {<<id, built'>>}]
        /\ UNCHANGED runs

\* The caller builds another rover for the same mission object.
LandAnotherRover ==
    /\ survey.phase = "over"
    /\ survey' = NewSurvey("Stowed", FullBattery)
    /\ UNCHANGED <<holdings, built, knowledge, runs>>

SurfaceNext ==
    \/ \E targets \in SUBSET Sites, most \in TargetLimits : Execute(targets, most)
    \/ FinishSurvey
    \/ NothingFeasible
    \/ \E cost \in RouteEnergies : TooExpensive(cost)
    \/ \E cost \in RouteEnergies, end \in LegEnds : GetsStuck(cost, end)
    \/ \E site \in Sites, cost \in RouteEnergies : Observe(site, cost)
    \/ LandAnotherRover
    \/ ProcessEnds

SurfaceSpec == SurfaceInit /\ [][SurfaceNext]_surfaceVars
-----------------------------------------------------------------------------
SurfaceTypeOK ==
    /\ holdings \in [Places -> [ProductIds -> Product \union {Absent}]]
    /\ survey \in SurveyType
    /\ knowledge \in [Sites -> Nat]

\* A target that counts as completed has the product of this very mission in
\* all three archives and analysed, and is known, whichever save failed and
\* whatever an earlier mission left in the archives under the same IDs; it is
\* counted once, no longer among the targets that remain, and paid for out of
\* the energy above the reserve; and a mission that says it is complete left
\* nothing out (autonomous_surface_mission.cpp: execute).
SurveyTells ==
    /\ \A c \in survey.completed :
           /\ \A place \in Places : holdings[place][c[1]] = [edition |-> c[2], usable |-> TRUE]
           /\ knowledge[c[1][1]] > 0 /\ c[1][1] \notin survey.remaining
    /\ survey.targets = Cardinality(survey.completed)
    /\ survey.completed # {} => survey.energy >= ReserveEnergy
    /\ survey.missionCompleted <=> survey.mode = "MissionComplete" /\ survey.remaining = {}
=============================================================================
