-------------------------- MODULE CommandRoundTrip --------------------------
(***************************************************************************)
(* One command to the spacecraft and back (ground/spacecraft_command_      *)
(* round_trip, ground/spacecraft_command_link, core/simulation_engine):    *)
(* the command is sent up, applied to the simulation, acknowledged, and,   *)
(* when applied, three telemetry packets report the new state.  The        *)
(* command pipeline and the link are built anew for every command; the     *)
(* ground station and the telemetry pipeline stay, and reset() empties     *)
(* their queues without forgetting the sequence numbers they saw.          *)
(***************************************************************************)
EXTENDS GroundStages

CONSTANTS
    AckSequence,           \* acknowledgement_sequence_start
    TelemetrySequence,     \* telemetry_sequence_start
    ReceiveCapacity,       \* of the ground station
    RecordCapacity,        \* of the telemetry pipeline
    MaxSimulated           \* bound: steps of the simulation

ASSUME RoundTripAssumption ==
    /\ AckSequence \in Nat /\ TelemetrySequence \in Nat /\ AckSequence < TelemetrySequence
    /\ ReceiveCapacity \in Nat /\ RecordCapacity \in Nat /\ MaxSimulated \in Nat

VARIABLES
    simulation,       \* the steps the simulation took: its state
    receiver,         \* ground_station_
    records,          \* telemetry_pipeline_
    nextTelemetry,    \* next_telemetry_sequence_
    outcome           \* the result of the last execute()

roundTripVars == <<simulation, receiver, records, nextTelemetry, outcome>>

\* What a command may ask: an application ("vehicle" is the link's target), an
\* operation with parameters that check or do not.
SpacecraftCommands ==
    [target : {"VIKRAM", "ROVER", "nobody"},
     opcode : {"COAST", "MAIN_ENGINE", "RCS", "DRIVE", "unknown"},
     parameters : {"good", "bad"}, sequence : {0, 1}]

Statuses == {"Applied", "InvalidTarget", "InvalidOpcode", "InvalidParameters",
             "PreconditionsFailed", "PhysicalFault", "not sent"}
RoundTripStatuses == {"Applied", "SpacecraftRejected", "GroundReceptionFailed",
                      "TelemetryIngestionFailed", "none"}

Metrics == <<"spacecraft_time_s", "spacecraft_speed_m_s", "spacecraft_mass_kg">>

NoOutcome == [status |-> "none", spacecraft |-> "not sent", moved |-> FALSE]

RoundTripInit ==
    /\ simulation = 0
    /\ receiver = NewStage(ReceiveCapacity, {"duplicate"})
    /\ records = NewStage(RecordCapacity, {"duplicate", "order"})
    /\ nextTelemetry = TelemetrySequence
    /\ outcome = NoOutcome
-----------------------------------------------------------------------------
\* A fresh pipeline refuses only an unknown target or operation.
UplinkPacket(c) ==
    [type |-> "command", source |-> "GROUND", origin |-> "GROUND", app |-> 502,
     seq |-> c.sequence, subject |-> "id",
     kind |-> IF c.target = "nobody" THEN "target"
              ELSE IF c.opcode = "unknown" THEN "opcode" ELSE "command"]

UplinkAccepted(c) ==
    CommandAnswer(NewStage(1, {"duplicate", "order"}), UplinkPacket(c)) = "Accepted"

\* The link's checks, in their order, on a link that has applied nothing:
\* its last sequence is 0.  A step that throws leaves the state alone.
LinkStatus(c, stepFails) ==
    IF c.target # "VIKRAM" THEN "InvalidTarget"
    ELSE IF c.sequence <= 0 THEN "PreconditionsFailed"
    ELSE IF c.opcode \notin {"COAST", "MAIN_ENGINE", "RCS"} THEN "InvalidOpcode"
    ELSE IF c.parameters = "bad" THEN "InvalidParameters"
    ELSE IF stepFails THEN "PhysicalFault"
    ELSE "Applied"

Down(type, kind, seq, subject, value) ==
    [type |-> type, kind |-> kind, source |-> "VIKRAM", origin |-> "VIKRAM", app |-> 502,
     seq |-> seq, subject |-> subject, value |-> value]
Acknowledgement(status) == Down("event", "invalid", AckSequence, "COMMAND_ACK", status)
Report(i, next, state) == Down("telemetry", "metric", next, Metrics[i], state)

\* mutant: what the pipeline answered is not looked at
ReportStepUnchecked(down, i, state) ==
    LET packet == Report(i, down.next, state)
    IN  IF StationAnswer(down.station, packet) # "Accepted"
        THEN [down EXCEPT !.status = "GroundReceptionFailed"]
        ELSE [station |-> StationAfter(down.station, packet),
              pipeline |-> TelemetryAfter(down.pipeline, packet),
              next |-> down.next + 1, status |-> down.status]

\* The downlink of one report: the station, then the pipeline; the sequence
\* number is used up once the station took the packet.
ReportStep(down, i, state) ==
    LET packet == Report(i, down.next, state)
        heard == StationAnswer(down.station, packet)
        told == TelemetryAnswer(down.pipeline, packet)
    IN  IF down.status # "Applied" THEN down
        ELSE IF heard # "Accepted" THEN [down EXCEPT !.status = "GroundReceptionFailed"]
        ELSE [station |-> StationAfter(down.station, packet),
              pipeline |-> TelemetryAfter(down.pipeline, packet),
              next |-> down.next + 1,
              status |-> IF told = "Accepted" THEN "Applied" ELSE "TelemetryIngestionFailed"]

Reports(down, state) ==
    ReportStep(ReportStep(ReportStep(down, 1, state), 2, state), 3, state)

\* The first report that fails ends the call.
Downlink(status, state) ==
    LET ack == Acknowledgement(status)
        down == [station |-> StationAfter(receiver, ack), pipeline |-> records,
                 next |-> nextTelemetry, status |-> "Applied"]
    IN  IF StationAnswer(receiver, ack) # "Accepted"
        THEN [down EXCEPT !.status = "GroundReceptionFailed"]
        ELSE IF status = "Applied" THEN Reports(down, state)
        ELSE [down EXCEPT !.status = "SpacecraftRejected"]

RejectUplink(c) ==
    /\ ~UplinkAccepted(c)
    /\ outcome' = [NoOutcome EXCEPT !.status = "SpacecraftRejected"]
    /\ UNCHANGED <<simulation, receiver, records, nextTelemetry>>

ExecuteRoundTrip(c, stepFails) ==
    LET status == LinkStatus(c, stepFails)
        applied == status = "Applied"
        state == IF applied THEN simulation + 1 ELSE simulation
        down == Downlink(status, state)
    IN  /\ UplinkAccepted(c)
        /\ applied => simulation < MaxSimulated
        /\ simulation' = state
        /\ receiver' = down.station
        /\ records' = down.pipeline
        /\ nextTelemetry' = down.next
        /\ outcome' = [status |-> down.status, spacecraft |-> status, moved |-> applied]

ResetRoundTrip ==
    /\ receiver' = Cleared(receiver)
    /\ records' = Cleared(records)
    /\ nextTelemetry' = TelemetrySequence
    /\ UNCHANGED <<simulation, outcome>>

RoundTripNext ==
    \/ \E c \in SpacecraftCommands : RejectUplink(c)
    \/ \E c \in SpacecraftCommands, stepFails \in BOOLEAN : ExecuteRoundTrip(c, stepFails)
    \/ ResetRoundTrip

RoundTripSpec == RoundTripInit /\ [][RoundTripNext]_roundTripVars
-----------------------------------------------------------------------------
RoundTripTypeOK ==
    /\ simulation \in 0 .. MaxSimulated
    /\ Len(receiver.held) <= ReceiveCapacity
    /\ Len(records.held) <= RecordCapacity
    /\ nextTelemetry \in Nat
    /\ outcome.status \in RoundTripStatuses /\ outcome.spacecraft \in Statuses

\* What the ground shows of the spacecraft, by metric.
Shown(m) == records.table[<<"VIKRAM", "VIKRAM", m>>].value
ShownMetrics == {key[3] : key \in DOMAIN records.table}

\* An answer "Applied" means the simulation moved and the ground shows all of
\* its new state; "SpacecraftRejected" means it did not move.  Everything the
\* ground shows is a state the simulation went through, and a report that got
\* lost half-way is the only reason for metrics of different states
\* (spacecraft_command_round_trip.cpp: every status is returned where it
\* arises; the sequence numbers a reset reuses are refused).
RoundTripTells ==
    /\ outcome.status = "Applied" =>
          /\ outcome.moved
          /\ \A i \in DOMAIN Metrics : Metrics[i] \in ShownMetrics /\ Shown(Metrics[i]) = simulation
    /\ outcome.status = "SpacecraftRejected" => ~outcome.moved
    /\ \A m \in ShownMetrics : Shown(m) <= simulation
    /\ \A i, j \in DOMAIN Metrics : i < j /\ Metrics[j] \in ShownMetrics =>
          Metrics[i] \in ShownMetrics /\ Shown(Metrics[i]) >= Shown(Metrics[j])
=============================================================================
