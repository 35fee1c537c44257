--------------------------- MODULE TelemetryLoop ---------------------------
(***************************************************************************)
(* The mission that reports within its own process                         *)
(* (mission/physical_mission_telemetry_loop): after every step each metric *)
(* goes as a packet through the ground station into the telemetry          *)
(* pipeline.  Nobody takes records out of the archive.  reset() empties    *)
(* the queues; what the stages saw stays seen.                             *)
(***************************************************************************)
EXTENDS PhysicalEngine, GroundStages

CONSTANTS
    DownlinkMetrics,       \* the number of metrics of a step (11)
    DownlinkQueue,         \* capacity of the receive queue (4096)
    DownlinkArchive,       \* capacity of the telemetry archive (8192)
    MaxDownlinkTicks       \* bound: steps since a reset

\* A step of one metric, or an archive of one packet, could end a run on number
\* 1, which the stages would refuse as a repetition after the next reset.
ASSUME DownlinkAssumption == DownlinkMetrics \in Nat \ {0, 1} /\ DownlinkArchive \in Nat \ {0, 1}
                         /\ DownlinkQueue \in Nat \ {0} /\ MaxDownlinkTicks \in Nat

VARIABLES
    craft,             \* the engine
    antenna,           \* ground_station_
    archive,           \* telemetry_
    packetSequence,
    downlinkStats

downlinkVars == <<craft, antenna, archive, packetSequence, downlinkStats>>

NoDownlinkStats == [ticks |-> 0, encoded |-> 0, received |-> 0, accepted |-> 0, rejected |-> 0]

\* Neither stage refuses packets out of order here.
DownlinkInit ==
    /\ craft = NewEngine(FALSE)
    /\ antenna = NewStage(DownlinkQueue, {"duplicate"})
    /\ archive = NewStage(DownlinkArchive, {"duplicate"})
    /\ packetSequence = 0 /\ downlinkStats = NoDownlinkStats

MetricPacket(metric, sequence, value) ==
    [type |-> "telemetry", source |-> "craft", origin |-> "craft", app |-> 101, seq |-> sequence,
     kind |-> "metric", subject |-> metric, value |-> value]

\* publish_metric on the state s: the first rejection throws, the metrics
\* after it are not published.  The engine's numbers are finite, and a packet of
\* one metric fits a frame: neither of the two throws before it is met.
PublishMetric(s, metric, value) ==
    LET p       == MetricPacket(metric, s.sequence + 1, value)
        held    == StationAfter(s.antenna, p)
        through == StationAnswer(s.antenna, p) = "Accepted"
        kept    == through /\ TelemetryAnswer(s.archive, p) = "Accepted"
    IN  IF s.thrown THEN s
        ELSE [sequence |-> s.sequence + 1,
              antenna |-> IF through THEN Popped(held) ELSE held,
              archive |-> IF through THEN TelemetryAfter(s.archive, p) ELSE s.archive,
              thrown |-> ~kept,
              stats |-> [s.stats EXCEPT !.encoded = @ + 1,
                                        !.received = IF through THEN @ + 1 ELSE @,
                                        !.accepted = IF kept THEN @ + 1 ELSE @,
                                        !.rejected = IF kept THEN @ ELSE @ + 1]]

PublishAll(s, value) ==
    LET published[m \in 0..DownlinkMetrics] ==
            IF m = 0 THEN s ELSE PublishMetric(published[m - 1], m, value)
    IN  published[DownlinkMetrics]

DownlinkStep(draw) ==
    /\ craft.sequence < MaxDownlinkTicks
    /\ Possible(craft, draw)
    /\ craft' = EngineAfter(craft, draw)
    /\ IF draw.throws
       THEN UNCHANGED <<antenna, archive, packetSequence, downlinkStats>>
       ELSE LET after == PublishAll([sequence |-> packetSequence, antenna |-> antenna,
                                     archive |-> archive, thrown |-> FALSE,
                                     stats |-> [downlinkStats EXCEPT !.ticks = @ + 1]],
                                    craft'.report)
            IN  /\ antenna' = after.antenna /\ archive' = after.archive
                /\ packetSequence' = after.sequence /\ downlinkStats' = after.stats

\* mutant: the stages keep what they hold
DownlinkResetKeeping ==
    /\ craft' = NewEngine(FALSE)
    /\ packetSequence' = 0 /\ downlinkStats' = NoDownlinkStats
    /\ UNCHANGED <<antenna, archive>>

DownlinkReset ==
    /\ craft' = NewEngine(FALSE)
    /\ antenna' = Cleared(antenna) /\ archive' = Cleared(archive)
    /\ packetSequence' = 0 /\ downlinkStats' = NoDownlinkStats

DownlinkNext == DownlinkReset \/ \E draw \in EngineDraws : DownlinkStep(draw)

DownlinkSpec == DownlinkInit /\ [][DownlinkNext]_downlinkVars
-----------------------------------------------------------------------------
DownlinkTypeOK ==
    /\ craft \in EngineType
    /\ antenna.held = <<>>
    /\ Len(archive.held) <= DownlinkArchive
    /\ packetSequence \in Nat
    /\ downlinkStats \in [DOMAIN NoDownlinkStats -> Nat]

\* Until a packet is refused, the current state the ground shows is one single
\* step of the mission, the last one: no metric lags behind another, also
\* after a reset that starts the numbering again under stages that remember;
\* and the archive is the only place a packet gets lost
\* (physical_mission_telemetry_loop.cpp: publish_metric, step, reset).
DownlinkShowsTheStep ==
    /\ downlinkStats.encoded = downlinkStats.received
    /\ downlinkStats.accepted = Len(archive.held)
    /\ downlinkStats.rejected = 0 /\ downlinkStats.ticks > 0 =>
           /\ Len(archive.held) = downlinkStats.ticks * DownlinkMetrics
           /\ \E shown \in {archive.table[k].value : k \in DOMAIN archive.table} :
                 /\ \A k \in DOMAIN archive.table : archive.table[k].value = shown
                 /\ shown = craft.report
    /\ downlinkStats.rejected > 0 => Len(archive.held) = DownlinkArchive
=============================================================================
