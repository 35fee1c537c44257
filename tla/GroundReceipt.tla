--------------------------- MODULE GroundReceipt ---------------------------
(***************************************************************************)
(* A ground station and the three pipelines behind it (GroundStages).  A   *)
(* consumer pops each packet the station queued and offers it to the       *)
(* pipelines.  The radio link loses, repeats, reorders and corrupts: any   *)
(* packet of the traffic may arrive at any time, any number of times.      *)
(***************************************************************************)
EXTENDS GroundStages

CONSTANTS
    Traffic,           \* the packets the vehicles ever send
    QueueCapacity,     \* receive_queue_capacity
    ArchiveCapacity    \* archive_capacity of each pipeline

PacketKinds == EventKinds \union {"metric", "command", "target", "opcode", "invalid", "corrupt"}

ASSUME ReceiptAssumption ==
    /\ \A p \in Traffic : p.seq \in Nat /\ p.kind \in PacketKinds
    /\ QueueCapacity \in Nat /\ ArchiveCapacity \in Nat

VARIABLES
    station, telemetry, events, commands,
    \* history: the packets a pipeline answered Accepted for
    telemetryAccepted, eventsAccepted, commandsAccepted

pipelineVars == <<telemetry, events, commands>>
acceptedVars == <<telemetryAccepted, eventsAccepted, commandsAccepted>>
receiptVars == <<station, pipelineVars, acceptedVars>>

\* The default configurations: only the station takes packets out of order.
BothChecks == {"duplicate", "order"}

ReceiptInit ==
    /\ station = NewStage(QueueCapacity, {"duplicate"})
    /\ telemetry = NewStage(ArchiveCapacity, BothChecks)
    /\ events = NewStage(ArchiveCapacity, BothChecks)
    /\ commands = NewStage(ArchiveCapacity, BothChecks)
    /\ telemetryAccepted = {} /\ eventsAccepted = {} /\ commandsAccepted = <<>>

IngestFrame(p) ==
    /\ station' = StationAfter(station, p)
    /\ UNCHANGED <<pipelineVars, acceptedVars>>

IngestTelemetry(p) ==
    /\ telemetry' = TelemetryAfter(telemetry, p)
    /\ telemetryAccepted' = IF TelemetryAnswer(telemetry, p) = "Accepted"
                            THEN telemetryAccepted \union {p} ELSE telemetryAccepted

IngestEvent(p) ==
    /\ events' = EventAfter(events, p)
    /\ eventsAccepted' = IF EventAnswer(events, p) = "Accepted"
                         THEN eventsAccepted \union {p} ELSE eventsAccepted

IngestCommand(p) ==
    /\ commands' = CommandAfter(commands, p)
    /\ commandsAccepted' = IF CommandAnswer(commands, p) = "Accepted"
                           THEN Append(commandsAccepted, p) ELSE commandsAccepted

\* The consumer of the receive queue offers the oldest packet to every
\* pipeline: all but the one of its type answer UnsupportedPacketType.
Dispatch ==
    /\ station.held # <<>>
    /\ station' = Popped(station)
    /\ IngestTelemetry(Head(station.held))
    /\ IngestEvent(Head(station.held))
    /\ IngestCommand(Head(station.held))

PopRecord ==
    /\ telemetry.held # <<>>
    /\ telemetry' = Popped(telemetry)
    /\ UNCHANGED <<station, events, commands, acceptedVars>>

PopEvent ==
    /\ events.held # <<>>
    /\ events' = Popped(events)
    /\ UNCHANGED <<station, telemetry, commands, acceptedVars>>

PopCommand ==
    /\ commands.held # <<>>
    /\ commands' = Popped(commands)
    /\ UNCHANGED <<station, telemetry, events, acceptedVars>>

\* An operator clears a fault by hand.
ClearFault(key) ==
    /\ events' = [events EXCEPT !.table = Without(@, key)]
    /\ UNCHANGED <<station, telemetry, commands, acceptedVars>>

ClearArchives ==
    /\ station' = Cleared(station)
    /\ telemetry' = Cleared(telemetry)
    /\ events' = Cleared(events)
    /\ commands' = Cleared(commands)
    /\ UNCHANGED acceptedVars

ReceiptNext ==
    \/ \E p \in Traffic : IngestFrame(p)
    \/ Dispatch
    \/ PopRecord
    \/ PopEvent
    \/ PopCommand
    \/ \E key \in DOMAIN events.table : ClearFault(key)
    \/ ClearArchives

ReceiptSpec == ReceiptInit /\ [][ReceiptNext]_receiptVars
-----------------------------------------------------------------------------
\* The queues stay within their capacities and every stage holds only packets
\* that were sent (space_link.cpp: receive_queue_; *_ingestion.cpp: archive_).
StageTypeOK(stage, capacity) ==
    /\ stage.capacity = capacity
    /\ stage.held \in Seq(Traffic)
    /\ Len(stage.held) <= capacity
    /\ \A k \in DOMAIN stage.last : stage.last[k] \in Nat
    /\ \A k \in DOMAIN stage.table : stage.table[k] \in Traffic

ReceiptTypeOK ==
    /\ StageTypeOK(station, QueueCapacity)
    /\ StageTypeOK(telemetry, ArchiveCapacity)
    /\ StageTypeOK(events, ArchiveCapacity)
    /\ StageTypeOK(commands, ArchiveCapacity)
    /\ telemetryAccepted \subseteq Traffic
    /\ eventsAccepted \subseteq Traffic
    /\ commandsAccepted \in Seq(Traffic)

\* Whatever the link reorders or repeats, get_current never answers with a
\* value older than one the pipeline accepted on the same stream, and has an
\* answer for every metric it ever accepted, of whatever stream
\* (telemetry_ingestion.cpp: last_sequence_by_stream_ guards current_state_).
CurrentIsNewest ==
    \A p \in telemetryAccepted :
        /\ MetricKey(p) \in DOMAIN telemetry.table
        /\ StreamKey(telemetry.table[MetricKey(p)]) = StreamKey(p)
             => p.seq <= telemetry.table[MetricKey(p)].seq

\* An active fault has not been recovered by a later event of its own stream,
\* although a recovery may arrive before the fault it ends
\* (event_ingestion.cpp: reject_out_of_order guards active_faults_).
RecoveredFaultStaysOut ==
    \A key \in DOMAIN events.table, p \in eventsAccepted :
        p.kind = "recovery" /\ FaultKey(p) = key /\ StreamKey(p) = StreamKey(events.table[key])
          => p.seq < events.table[key].seq

\* A command ID is handed to the executor once, however often, under whatever
\* sequence number and over whichever stream it is sent again, and although
\* the archive is popped and cleared meanwhile (command_ingestion.cpp:
\* command_ids_ outlives archive_); and the commands of a stream leave in the
\* order of their sequence numbers.
CommandAcceptedOnce ==
    \A i, j \in 1 .. Len(commandsAccepted) : i < j =>
        /\ commandsAccepted[i].subject # commandsAccepted[j].subject
        /\ CommandStreamKey(commandsAccepted[i]) = CommandStreamKey(commandsAccepted[j])
             => commandsAccepted[i].seq <= commandsAccepted[j].seq
=============================================================================
