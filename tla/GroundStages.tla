---------------------------- MODULE GroundStages ----------------------------
(***************************************************************************)
(* The four receiving stages of the C++ ground segment as operators on     *)
(* their state: the ground station (ground/space_link) and the telemetry,  *)
(* event and command ingestion pipelines.  Each stage keeps its own last   *)
(* sequence number per stream and its own idea of a duplicate and of a     *)
(* packet out of order, and each has a capacity.  Stage(p) answers, and    *)
(* the state after the call is the state before it unless the answer is    *)
(* "Accepted".  The components that own stages (GroundReceipt,             *)
(* CommandRoundTrip, ClosedLoop) call these operators.                     *)
(***************************************************************************)
EXTENDS Integers, Sequences

\* A stage as it is constructed: nothing seen, nothing held.  "last" and the
\* tables are maps that grow as their keys are met.
NoEntries == [x \in {} |-> 0]
NewStage(capacity, rejects) ==
    [last |-> NoEntries, held |-> <<>>, table |-> NoEntries,
     capacity |-> capacity, rejects |-> rejects]

Put(map, key, value) ==
    [k \in DOMAIN map \union {key} |-> IF k = key THEN value ELSE map[k]]
Without(map, key) == [k \in DOMAIN map \ {key} |-> map[k]]

\* The packet's stream, and the rows it writes in the tables of the stages.  Where
\* commands are told apart by their destination too, app stands for both.
StreamKey(p) == <<p.source, p.origin, p.app>>
CommandStreamKey(p) == <<p.source, p.app>>
MetricKey(p) == <<p.source, p.origin, p.subject>>
FaultKey(p) == <<p.origin, p.subject>>

IsDuplicate(stage, key, p) ==
    "duplicate" \in stage.rejects /\ key \in DOMAIN stage.last /\ p.seq = stage.last[key]
IsOutOfOrder(stage, key, p) ==
    "order" \in stage.rejects /\ key \in DOMAIN stage.last /\ p.seq < stage.last[key]
IsFull(stage) == Len(stage.held) >= stage.capacity

\* The packet is held and its stream noted; "table" is what the stage shows
\* to queries.
Holding(stage, key, p, table) ==
    [last |-> Put(stage.last, key, p.seq), held |-> Append(stage.held, p), table |-> table,
     capacity |-> stage.capacity, rejects |-> stage.rejects]

Popped(stage) == [stage EXCEPT !.held = Tail(@)]
\* mutant: the table goes with the archive
ClearedWithTable(stage) == [stage EXCEPT !.held = <<>>, !.table = NoEntries]
\* clear_receive_queue, clear_archive: what was seen stays seen.
Cleared(stage) == [stage EXCEPT !.held = <<>>]
-----------------------------------------------------------------------------
(* The ground station *)

GroundPacketTypes == {"telemetry", "science", "event", "command", "file"}

\* The frame checks and decodes to the packet that was encoded, or not at all.
Readable(p) == p.kind # "corrupt" /\ p.type \in GroundPacketTypes

\* mutant: the queue grows as it needs to
StationAnswerUnbounded(station, p) ==
    IF p.kind = "corrupt" THEN "InvalidFrame"
    ELSE IF ~Readable(p) THEN "InvalidPacket"
    ELSE IF IsDuplicate(station, StreamKey(p), p) THEN "Duplicate"
    ELSE IF IsOutOfOrder(station, StreamKey(p), p) THEN "OutOfOrder"
    ELSE "Accepted"

\* A full queue refuses without noting the sequence number.
StationAnswer(station, p) ==
    IF p.kind = "corrupt" THEN "InvalidFrame"
    ELSE IF ~Readable(p) THEN "InvalidPacket"
    ELSE IF IsDuplicate(station, StreamKey(p), p) THEN "Duplicate"
    ELSE IF IsOutOfOrder(station, StreamKey(p), p) THEN "OutOfOrder"
    ELSE IF IsFull(station) THEN "QueueFull"
    ELSE "Accepted"

StationAfter(station, p) ==
    IF StationAnswer(station, p) = "Accepted"
    THEN Holding(station, StreamKey(p), p, station.table)
    ELSE station
-----------------------------------------------------------------------------
(* Telemetry: the sequence is checked before the payload.  The table is    *)
(* current_state_, by metric.                                              *)

\* mutant: late packets are as good as timely ones
TelemetryAnswerAnyOrder(pipeline, p) ==
    IF p.type # "telemetry" THEN "UnsupportedPacketType"
    ELSE IF IsDuplicate(pipeline, StreamKey(p), p) THEN "Duplicate"
    ELSE IF p.kind # "metric" THEN "InvalidPayload"
    ELSE IF IsFull(pipeline) THEN "CapacityFull"
    ELSE "Accepted"

TelemetryAnswer(pipeline, p) ==
    IF p.type # "telemetry" THEN "UnsupportedPacketType"
    ELSE IF IsDuplicate(pipeline, StreamKey(p), p) THEN "Duplicate"
    ELSE IF IsOutOfOrder(pipeline, StreamKey(p), p) THEN "OutOfOrder"
    ELSE IF p.kind # "metric" THEN "InvalidPayload"
    ELSE IF IsFull(pipeline) THEN "CapacityFull"
    ELSE "Accepted"

TelemetryAfter(pipeline, p) ==
    IF TelemetryAnswer(pipeline, p) = "Accepted"
    THEN Holding(pipeline, StreamKey(p), p, Put(pipeline.table, MetricKey(p), p))
    ELSE pipeline
-----------------------------------------------------------------------------
(* Events: the payload is checked before the sequence.  The table is       *)
(* active_faults_: an active fault enters it, a recovery takes the row     *)
(* out; a fault reported with active=false ("quiet") does neither.         *)

EventKinds == {"fault", "quiet", "recovery", "event"}

\* mutant: a late fault is taken for a new one
EventAnswerAnyOrder(pipeline, p) ==
    IF p.type # "event" THEN "UnsupportedPacketType"
    ELSE IF p.kind \notin EventKinds THEN "InvalidPayload"
    ELSE IF IsDuplicate(pipeline, StreamKey(p), p) THEN "Duplicate"
    ELSE IF IsFull(pipeline) THEN "CapacityFull"
    ELSE "Accepted"

EventAnswer(pipeline, p) ==
    IF p.type # "event" THEN "UnsupportedPacketType"
    ELSE IF p.kind \notin EventKinds THEN "InvalidPayload"
    ELSE IF IsDuplicate(pipeline, StreamKey(p), p) THEN "Duplicate"
    ELSE IF IsOutOfOrder(pipeline, StreamKey(p), p) THEN "OutOfOrder"
    ELSE IF IsFull(pipeline) THEN "CapacityFull"
    ELSE "Accepted"

FaultsAfter(faults, p) ==
    CASE p.kind = "fault" -> Put(faults, FaultKey(p), p)
      [] p.kind = "recovery" -> Without(faults, FaultKey(p))
      [] OTHER -> faults

EventAfter(pipeline, p) ==
    IF EventAnswer(pipeline, p) = "Accepted"
    THEN Holding(pipeline, StreamKey(p), p, FaultsAfter(pipeline.table, p))
    ELSE pipeline
-----------------------------------------------------------------------------
(* Commands: the ID is checked before the sequence, and an equal sequence  *)
(* number is not out of order.  The table is command_ids_.                 *)

CommandAnswer(pipeline, p) ==
    IF p.type # "command" THEN "UnsupportedPacketType"
    ELSE IF p.kind \notin {"command", "target", "opcode"} THEN "InvalidPayload"
    ELSE IF p.kind = "target" THEN "InvalidTarget"
    ELSE IF p.kind = "opcode" THEN "UnknownOpcode"
    ELSE IF "duplicate" \in pipeline.rejects /\ p.subject \in DOMAIN pipeline.table THEN "Duplicate"
    ELSE IF IsOutOfOrder(pipeline, CommandStreamKey(p), p) THEN "OutOfOrder"
    ELSE IF IsFull(pipeline) THEN "CapacityFull"
    ELSE "Accepted"

CommandAfter(pipeline, p) ==
    IF CommandAnswer(pipeline, p) = "Accepted"
    THEN Holding(pipeline, CommandStreamKey(p), p, Put(pipeline.table, p.subject, p))
    ELSE pipeline
=============================================================================
