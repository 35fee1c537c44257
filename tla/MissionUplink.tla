--------------------------- MODULE MissionUplink ---------------------------
(***************************************************************************)
(* The mission that reports to the ground over HTTP: the phase controller  *)
(* (mission/physical_mission_phase_controller) steps the engine and keeps  *)
(* its transitions, the uplink (mission/physical_mission_ground_uplink)    *)
(* posts the metrics of every step, one record each, to POST /v1/ingest.   *)
(* The connection may fail before the record is stored or after; the       *)
(* uplink's process may end and be started anew, the ground stays up.      *)
(***************************************************************************)
EXTENDS PhysicalEngine, Sequences

CONSTANTS
    PostedMetrics,     \* the number of metrics of a step
    MaxTicks,          \* bound: steps of one mission
    MaxLaunches        \* bound: processes started

ASSUME UplinkAssumption ==
    PostedMetrics \in Nat \ {0} /\ MaxTicks \in Nat /\ MaxLaunches \in Nat \ {0}

VARIABLES
    flight,            \* the engine of the controller
    transitions,
    progress,          \* the controller's snapshot
    uplink,            \* the counters and the metric to be posted next
    ground,            \* the records the ground stored, in their order
    launch             \* history: which process this is

uplinkVars == <<flight, transitions, progress, uplink, ground, launch>>

PostOutcomes == {"accepted", "answer lost", "not sent", "refused"}

NewUplink == [next |-> 0, id |-> 0, ticks |-> 0, attempted |-> 0, accepted |-> <<>>, rejected |-> 0]

Shows(engine, previous, changed, count) ==
    [phase |-> engine.report.phase, previous |-> previous, changed |-> changed, count |-> count,
     sequence |-> engine.report.sequence, complete |-> engine.phase = "Complete"]

\* The executable opts into the event-driven arc.
FreshProcess ==
    /\ flight' = NewEngine(TRUE)
    /\ transitions' = <<>>
    /\ progress' = Shows(NewEngine(TRUE), "EarthOrbit", FALSE, 0)
    /\ uplink' = NewUplink

UplinkInit ==
    /\ flight = NewEngine(TRUE)
    /\ transitions = <<>>
    /\ progress = Shows(NewEngine(TRUE), "EarthOrbit", FALSE, 0)
    /\ uplink = NewUplink
    /\ ground = <<>> /\ launch = 1

\* PhysicalMissionPhaseController::step; an exception leaves the controller's
\* snapshot as it was.
ControllerStep(draw) ==
    /\ Possible(flight, draw)
    /\ flight' = EngineAfter(flight, draw)
    /\ IF draw.throws
       THEN UNCHANGED <<transitions, progress>>
       ELSE LET changed == flight'.phase # flight.phase
            IN  /\ transitions' = IF changed
                                  THEN Append(transitions,
                                              [from |-> flight.phase, to |-> flight'.phase,
                                               sequence |-> flight'.sequence])
                                  ELSE transitions
                /\ progress' = Shows(flight', flight.phase, changed, Len(transitions'))

\* step() begins: the mission moves on, then the first metric is due.
Tick(draw) ==
    /\ uplink.next = 0 /\ ~progress.complete
    /\ flight.sequence < MaxTicks
    /\ ControllerStep(draw)
    /\ uplink' = IF draw.throws THEN uplink ELSE [uplink EXCEPT !.next = 1, !.ticks = @ + 1]
    /\ UNCHANGED <<ground, launch>>

\* make_record_json: the record of the metric that is due.  Its ID counts the
\* posts of this process, failed ones included.
DueRecord ==
    [id |-> uplink.id + 1, tick |-> progress.sequence, metric |-> uplink.next,
     phase |-> progress.phase, launch |-> launch]

\* What the ground makes of a record ID it has already (409).
Stored(id) == \E i \in DOMAIN ground : ground[i].id = id

PostPossible(outcome) ==
    IF Stored(uplink.id + 1) THEN outcome \in {"refused", "not sent"} ELSE outcome # "refused"

\* mutant: "the ground has it already" is good enough
SucceedsOnConflict(outcome) == outcome \in {"accepted", "refused"}
Succeeds(outcome) == outcome = "accepted"

\* publish_metric: a failure throws out of step(); the metrics that were still
\* due are never posted.  The engine's numbers are finite: one that is not would
\* throw while the record is made, after it was counted as attempted.
Post(outcome) ==
    /\ uplink.next > 0
    /\ PostPossible(outcome)
    /\ ground' = IF outcome \in {"accepted", "answer lost"} THEN Append(ground, DueRecord)
                 ELSE ground
    /\ uplink' =
         [uplink EXCEPT
            !.id = @ + 1, !.attempted = @ + 1,
            !.accepted = IF Succeeds(outcome) THEN Append(@, DueRecord) ELSE @,
            !.rejected = IF Succeeds(outcome) THEN @ ELSE @ + 1,
            !.next = IF Succeeds(outcome) /\ @ < PostedMetrics THEN @ + 1 ELSE 0]
    /\ UNCHANGED <<flight, transitions, progress, launch>>

\* The process ends, in the middle of a step or not, and another one starts.
Relaunch ==
    /\ launch < MaxLaunches
    /\ launch' = launch + 1
    /\ FreshProcess
    /\ UNCHANGED ground

UplinkNext ==
    \/ \E draw \in EngineDraws : Tick(draw)
    \/ \E outcome \in PostOutcomes : Post(outcome)
    \/ Relaunch

UplinkSpec == UplinkInit /\ [][UplinkNext]_uplinkVars
-----------------------------------------------------------------------------
RecordType == [id : Nat, tick : Nat, metric : 1..PostedMetrics, phase : MissionPhases, launch : Nat]

UplinkTypeOK ==
    /\ flight \in EngineType
    /\ transitions \in Seq([from : MissionPhases, to : MissionPhases, sequence : Nat])
    /\ progress \in [phase : MissionPhases, previous : MissionPhases, changed : BOOLEAN,
                     count : Nat, sequence : Nat, complete : BOOLEAN]
    /\ uplink \in [next : 0..PostedMetrics, id : Nat, ticks : 0..MaxTicks, attempted : Nat,
                   accepted : Seq(RecordType), rejected : Nat]
    /\ ground \in Seq(RecordType)
    /\ launch \in 1..MaxLaunches

\* What the uplink counts is what the ground has, whatever connection failed
\* and however often the process was started: every record the ground answered
\* 2xx for is stored, it and not an older one of the same ID; what a process
\* stored arrived in the order of its steps; and the transitions the ground
\* can read off the phases of the records are transitions the controller made
\* (physical_mission_ground_uplink.cpp: publish_metric, step;
\* physical_mission_phase_controller.cpp: step).
UplinkTells ==
    /\ \A i \in DOMAIN uplink.accepted :
           \E j \in DOMAIN ground : ground[j] = uplink.accepted[i]
    /\ uplink.attempted = Len(uplink.accepted) + uplink.rejected
    /\ \A i, j \in DOMAIN ground : i < j =>
           /\ ground[i].id # ground[j].id
           /\ ground[i].launch = ground[j].launch =>
                 \/ ground[i].tick < ground[j].tick
                 \/ ground[i].tick = ground[j].tick /\ ground[i].metric < ground[j].metric
    /\ \A j \in DOMAIN ground : ground[j].launch = launch =>
           ground[j].phase \in {"EarthOrbit"} \union {transitions[k].to : k \in DOMAIN transitions}
    /\ \A k \in DOMAIN transitions :
           transitions[k].from = IF k = 1 THEN "EarthOrbit" ELSE transitions[k - 1].to
    /\ flight.phase = IF transitions = <<>> THEN "EarthOrbit" ELSE transitions[Len(transitions)].to
=============================================================================
