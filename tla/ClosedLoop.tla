----------------------------- MODULE ClosedLoop -----------------------------
(***************************************************************************)
(* The closed loop (ground/closed_loop_feedback) and the mission cycle     *)
(* that runs a list of commands through it (ground/closed_loop_mission_    *)
(* cycle): each command is executed logically, applied to the vehicle, and *)
(* its outcome is reported back into an event pipeline and a telemetry     *)
(* pipeline of the loop's own.  reset() starts the sequence numbers again; *)
(* the pipelines remember the old ones.  A step is one command: nothing    *)
(* else runs meanwhile.                                                    *)
(***************************************************************************)
EXTENDS GroundStages, VehicleCommands

CONSTANTS
    Orders,             \* the commands of a cycle, with a sequence number
    CycleLength,        \* bound: commands in a cycle
    EventSequence, FeedbackSequence,   \* the sequence numbers to start from
    EventCapacity, FeedbackCapacity,   \* archive_capacity of the two pipelines
    MaxFeedback         \* bound: reports since the last reset

ASSUME ClosedLoopAssumption ==
    /\ \A o \in Orders : [target |-> o.target, opcode |-> o.opcode,
                          parameters |-> o.parameters] \in CommandType /\ o.sequence \in Nat
    /\ CycleLength \in Nat /\ EventSequence \in Nat /\ FeedbackSequence \in Nat
    /\ EventCapacity \in Nat /\ FeedbackCapacity \in Nat /\ MaxFeedback \in Nat

VARIABLES
    logical,         \* execution_engine_: state by target
    vehicle,         \* vehicle_adapter_
    loopEvents, loopTelemetry,
    nextEvent, nextFeedback,
    cycle,           \* [status, todo, processed, stepsBefore]
    lastResult       \* the status of the last process()

loopVars == <<logical, vehicle, loopEvents, loopTelemetry, nextEvent, nextFeedback,
              cycle, lastResult>>

LoopStatuses == {"Applied", "LogicalExecutionFailed", "PhysicalApplicationFailed",
                 "FeedbackIngestionFailed", "threw", "none"}
CycleStatuses == {"none", "running", "Applied", "EmptyCycle", "SequenceViolation",
                  "CommandFailed", "threw"}

NoCycle == [status |-> "none", todo |-> <<>>, processed |-> 0, stepsBefore |-> 0]

LoopInit ==
    /\ logical = [t \in Targets |-> StandBy]
    /\ vehicle = NewAdapter
    /\ loopEvents = NewStage(EventCapacity, {"duplicate", "order"})
    /\ loopTelemetry = NewStage(FeedbackCapacity, {"duplicate", "order"})
    /\ nextEvent = EventSequence /\ nextFeedback = FeedbackSequence
    /\ cycle = NoCycle
    /\ lastResult = "none"
-----------------------------------------------------------------------------
(* The report of one command *)

FeedbackMetrics == <<"rover_x_m", "rover_y_m", "rover_heading_rad", "rover_speed_m_s",
                     "rover_battery_soc", "rover_physical_steps">>

\* What a metric says, to the six digits it is printed with: values that agree in
\* them are one value here.  Position and heading change together with the place.
Reading(m, a) ==
    CASE m = "rover_speed_m_s" -> a.snapshot.moving
      [] m = "rover_battery_soc" -> a.snapshot.charge
      [] m = "rover_physical_steps" -> a.steps
      [] OTHER -> a.snapshot.place

Feedback(type, kind, seq, subject, value) ==
    [type |-> type, kind |-> kind, source |-> "ROVER", origin |-> "ROVER", app |-> 201,
     seq |-> seq, subject |-> subject, value |-> value]

\* Each metric takes a sequence number; the first refusal ends the report.
ReportMetric(report, m, a) ==
    LET packet == Feedback("telemetry", "metric", report.next, m, Reading(m, a))
    IN  IF ~report.ok THEN report
        ELSE [stage |-> TelemetryAfter(report.stage, packet), next |-> report.next + 1,
              ok |-> TelemetryAnswer(report.stage, packet) = "Accepted"]

ReportMetrics(a) ==
    LET none == [stage |-> loopTelemetry, next |-> nextFeedback, ok |-> TRUE]
        x == ReportMetric(none, FeedbackMetrics[1], a)
        y == ReportMetric(x, FeedbackMetrics[2], a)
        heading == ReportMetric(y, FeedbackMetrics[3], a)
        speed == ReportMetric(heading, FeedbackMetrics[4], a)
        battery == ReportMetric(speed, FeedbackMetrics[5], a)
    IN  ReportMetric(battery, FeedbackMetrics[6], a)

\* What the engine answers when the command executed and the vehicle replied.
FeedbackAnswer(physical, told, report) ==
    IF told # "Accepted" \/ ~report.ok THEN "FeedbackIngestionFailed"
    ELSE IF physical # "Applied" THEN "PhysicalApplicationFailed"
    ELSE "Applied"

Tell(physical) ==
    LET event == Feedback("event", "event", nextEvent, "COMMAND_VEHICLE_FEEDBACK", physical)
        told == EventAnswer(loopEvents, event)
        report == IF told = "Accepted" THEN ReportMetrics(vehicle')
                  ELSE [stage |-> loopTelemetry, next |-> nextFeedback, ok |-> TRUE]
    IN  /\ loopEvents' = EventAfter(loopEvents, event)
        /\ nextEvent' = nextEvent + 1
        /\ loopTelemetry' = report.stage
        /\ nextFeedback' = report.next
        /\ lastResult' = FeedbackAnswer(physical, told, report)

KeepReports == UNCHANGED <<loopEvents, loopTelemetry, nextEvent, nextFeedback>>

\* process(): a command whose target is no target has no state to look at.
StateOfTarget(c) == IF c.target \in Targets THEN logical[c.target] ELSE StandBy
Executes(c) == LogicalAnswer(StateOfTarget(c), c) = "Executed"
ExecuteLogically(c) ==
    logical' = [t \in Targets |-> IF t = c.target THEN LogicalAfter(logical[t], c) ELSE logical[t]]

ProcessRefused(c) ==
    /\ ~Executes(c)
    /\ ExecuteLogically(c)
    /\ lastResult' = "LogicalExecutionFailed"
    /\ UNCHANGED vehicle /\ KeepReports

ProcessApplied(c, draw) ==
    /\ Executes(c) /\ ~ApplyThrows(vehicle, c)
    /\ ExecuteLogically(c)
    /\ vehicle' = AdapterAfter(vehicle, c, draw)
    /\ Tell(AdapterAnswer(vehicle, c, draw))

\* The exception leaves the loop with the command executed logically.
ProcessThrows(c) ==
    /\ Executes(c) /\ ApplyThrows(vehicle, c)
    /\ ExecuteLogically(c)
    /\ lastResult' = "threw"
    /\ UNCHANGED vehicle /\ KeepReports
-----------------------------------------------------------------------------
(* The cycle *)

StrictlyIncreasing(orders) ==
    \A i \in 2 .. Len(orders) : orders[i - 1].sequence < orders[i].sequence

StartCycle(orders) ==
    /\ cycle.status # "running"
    /\ nextEvent + Len(orders) <= EventSequence + MaxFeedback
    /\ cycle' = [NoCycle EXCEPT !.todo = orders, !.stepsBefore = vehicle.steps,
                     !.status = IF orders = <<>> THEN "EmptyCycle"
                                ELSE IF ~StrictlyIncreasing(orders) THEN "SequenceViolation"
                                ELSE "running"]
    /\ UNCHANGED <<logical, vehicle, lastResult>> /\ KeepReports

Process(c) ==
    \/ ProcessRefused(c)
    \/ \E draw \in Draws : ProcessApplied(c, draw)
    \/ ProcessThrows(c)

\* The first command that is not Applied ends the cycle.
ProcessNext ==
    /\ cycle.status = "running"
    /\ Process(Head(cycle.todo))
    /\ cycle' = IF lastResult' = "threw" THEN [cycle EXCEPT !.status = "threw"]
                ELSE IF lastResult' # "Applied" THEN [cycle EXCEPT !.status = "CommandFailed"]
                ELSE [cycle EXCEPT !.todo = Tail(@), !.processed = @ + 1,
                          !.status = IF Tail(cycle.todo) = <<>> THEN "Applied" ELSE @]

ResetLoop ==
    /\ cycle.status # "running"
    /\ logical' = [t \in Targets |-> StandBy]
    /\ vehicle' = NewAdapter
    /\ loopEvents' = Cleared(loopEvents) /\ loopTelemetry' = Cleared(loopTelemetry)
    /\ nextEvent' = EventSequence /\ nextFeedback' = FeedbackSequence
    /\ cycle' = NoCycle /\ lastResult' = "none"

LoopNext ==
    \/ \E n \in 0 .. CycleLength : \E orders \in [1 .. n -> Orders] : StartCycle(orders)
    \/ ProcessNext
    \/ ResetLoop

LoopSpec == LoopInit /\ [][LoopNext]_loopVars
-----------------------------------------------------------------------------
LoopTypeOK ==
    /\ logical \in [Targets -> LogicalState]
    /\ vehicle \in AdapterType
    /\ Len(loopEvents.held) <= EventCapacity /\ Len(loopTelemetry.held) <= FeedbackCapacity
    /\ nextEvent \in Nat /\ nextFeedback \in Nat
    /\ cycle.status \in CycleStatuses /\ cycle.todo \in Seq(Orders)
    /\ lastResult \in LoopStatuses

\* After an answer "Applied" the ground's six metrics are the vehicle's state,
\* all from the same moment; nothing but that answer counts a command of the
\* cycle as processed; and whatever happened, the snapshot the vehicle reports
\* is the vehicle (closed_loop_feedback.cpp: process; vehicle_command_adapter.cpp:
\* sync_snapshot at the end of every branch that changes the rover).
FeedbackTellsTheVehicle ==
    /\ lastResult = "Applied" =>
          \A i \in DOMAIN FeedbackMetrics :
              LET key == <<"ROVER", "ROVER", FeedbackMetrics[i]>> IN
              /\ key \in DOMAIN loopTelemetry.table
              /\ loopTelemetry.table[key].value = Reading(FeedbackMetrics[i], vehicle)
    /\ cycle.status \in {"Applied", "CommandFailed"} =>
          (cycle.status = "Applied" <=> lastResult = "Applied")
    /\ vehicle.snapshot = vehicle.rover

\* The vehicle drives, deploys or stops only for a command that executed
\* logically, never while its target is in safe mode, and the commands behind
\* one that failed are not tried (closed_loop_mission_cycle.h: "It never
\* advances physical state for a command that fails logical execution and stops
\* the cycle at the first failed command").
VehicleObeysTheLogic ==
    [][ResetLoop \/
       (vehicle' # vehicle =>
           /\ cycle.status = "running" /\ ~logical["ROVER"].safe
           /\ lastResult' # "LogicalExecutionFailed"
           /\ Head(cycle.todo).target = "ROVER")]_loopVars
=============================================================================
