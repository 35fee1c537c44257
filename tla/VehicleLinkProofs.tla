------------------------- MODULE VehicleLinkProofs -------------------------
(***************************************************************************)
(* Proofs about the way of a command to a vehicle and of the answer back,  *)
(* for any traffic, any capacities of the stages and any commands:         *)
(* GroundReceipt, CommandRoundTrip, VehicleBridge and ClosedLoop.          *)
(***************************************************************************)
EXTENDS GroundReceipt, CommandRoundTrip, ClosedLoop, VehicleBridge, FiniteSetTheorems,
        SequenceTheorems, TLAPS
-----------------------------------------------------------------------------
\* A stage is a record of five fields.
IsStage(s) == s = [last |-> s.last, held |-> s.held, table |-> s.table,
                   capacity |-> s.capacity, rejects |-> s.rejects]

Typed(s, capacity) == IsStage(s) /\ StageTypeOK(s, capacity)

TelemetryInv ==
    /\ Typed(telemetry, ArchiveCapacity) /\ telemetry.rejects = BothChecks
    /\ telemetryAccepted \subseteq Traffic
    /\ \A p \in telemetryAccepted : /\ StreamKey(p) \in DOMAIN telemetry.last
                                    /\ p.seq <= telemetry.last[StreamKey(p)]
    /\ CurrentIsNewest

EventsInv ==
    /\ Typed(events, ArchiveCapacity) /\ events.rejects = BothChecks
    /\ eventsAccepted \subseteq Traffic
    /\ \A p \in eventsAccepted : /\ StreamKey(p) \in DOMAIN events.last
                                 /\ p.seq <= events.last[StreamKey(p)]
    /\ RecoveredFaultStaysOut

CommandsInv ==
    /\ Typed(commands, ArchiveCapacity) /\ commands.rejects = BothChecks
    /\ commandsAccepted \in Seq(Traffic)
    /\ \A i \in 1 .. Len(commandsAccepted) :
          /\ commandsAccepted[i].subject \in DOMAIN commands.table
          /\ CommandStreamKey(commandsAccepted[i]) \in DOMAIN commands.last
          /\ commandsAccepted[i].seq <= commands.last[CommandStreamKey(commandsAccepted[i])]
    /\ CommandAcceptedOnce

ReceiptInv == Typed(station, QueueCapacity) /\ TelemetryInv /\ EventsInv /\ CommandsInv
-----------------------------------------------------------------------------
(* The maps and the stages *)

LEMMA NewStageTyped ==
    ASSUME NEW capacity \in Nat, NEW rejects
    PROVE  /\ Typed(NewStage(capacity, rejects), capacity)
           /\ NewStage(capacity, rejects).rejects = rejects
           /\ DOMAIN NewStage(capacity, rejects).table = {}
<1> DEFINE s == NewStage(capacity, rejects)
<1>1. /\ IsStage(s) /\ s.capacity = capacity /\ s.held = <<>> /\ s.rejects = rejects
      /\ DOMAIN s.last = {} /\ DOMAIN s.table = {}
  BY DEF NewStage, IsStage, NoEntries
<1>2. <<>> \in Seq(Traffic) /\ Len(<<>>) = 0
  OBVIOUS
<1> HIDE DEF s
<1>3. Typed(s, capacity)
  BY <1>1, <1>2 DEF Typed, StageTypeOK
<1> QED
  BY <1>1, <1>3 DEF s

LEMMA PoppedTyped ==
    ASSUME NEW s, NEW capacity \in Nat, Typed(s, capacity), s.held # <<>>
    PROVE  /\ Typed(Popped(s), capacity) /\ Popped(s).rejects = s.rejects
           /\ Popped(s).last = s.last /\ Popped(s).table = s.table
<1>1. Popped(s) = [last |-> s.last, held |-> Tail(s.held), table |-> s.table,
                   capacity |-> s.capacity, rejects |-> s.rejects]
  <2> DEFINE rest == Tail(s.held)
  <2>1. Popped(s) = [s EXCEPT !.held = rest]
    BY DEF Popped
  <2> HIDE DEF rest
  <2>2. [s EXCEPT !.held = rest] = [last |-> s.last, held |-> rest, table |-> s.table,
                                    capacity |-> s.capacity, rejects |-> s.rejects]
    BY DEF Typed, IsStage
  <2> QED
    BY <2>1, <2>2 DEF rest
<1>2. Tail(s.held) \in Seq(Traffic) /\ Len(Tail(s.held)) <= Len(s.held)
  BY DEF Typed, StageTypeOK
<1>3. Len(s.held) \in Nat /\ Len(Tail(s.held)) \in Nat
  BY <1>2 DEF Typed, StageTypeOK
<1> QED
  BY <1>1, <1>2, <1>3 DEF Typed, IsStage, StageTypeOK

LEMMA ClearedTyped ==
    ASSUME NEW s, NEW capacity \in Nat, Typed(s, capacity)
    PROVE  /\ Typed(Cleared(s), capacity) /\ Cleared(s).rejects = s.rejects
           /\ Cleared(s).last = s.last /\ Cleared(s).table = s.table
<1>1. Cleared(s) = [last |-> s.last, held |-> <<>>, table |-> s.table,
                    capacity |-> s.capacity, rejects |-> s.rejects]
  BY DEF Cleared, Typed, IsStage
<1>2. <<>> \in Seq(Traffic) /\ Len(<<>>) = 0
  OBVIOUS
<1> QED
  BY <1>1, <1>2 DEF Typed, IsStage, StageTypeOK

LEMMA HoldingTyped ==
    ASSUME NEW s, NEW capacity \in Nat, Typed(s, capacity), ~IsFull(s), NEW p \in Traffic,
           NEW key, NEW table, \A k \in DOMAIN table : table[k] \in Traffic
    PROVE  /\ Typed(Holding(s, key, p, table), capacity)
           /\ Holding(s, key, p, table).rejects = s.rejects
           /\ Holding(s, key, p, table).last = Put(s.last, key, p.seq)
           /\ Holding(s, key, p, table).table = table
<1> DEFINE h == Holding(s, key, p, table)
<1>1. /\ IsStage(h) /\ h.last = Put(s.last, key, p.seq) /\ h.held = Append(s.held, p)
      /\ h.table = table /\ h.capacity = s.capacity /\ h.rejects = s.rejects
  BY DEF Holding, IsStage
<1> HIDE DEF h
<1>2. Append(s.held, p) \in Seq(Traffic) /\ Len(Append(s.held, p)) <= capacity
  BY DEF IsFull, Typed, StageTypeOK
<1>3. p.seq \in Nat
  BY ReceiptAssumption
<1>4. \A k \in DOMAIN h.last : h.last[k] \in Nat
  BY <1>1, <1>3 DEF Typed, StageTypeOK, Put
<1>5. Typed(h, capacity)
  BY <1>1, <1>2, <1>4 DEF Typed, StageTypeOK
<1> QED
  BY <1>1, <1>5 DEF h
-----------------------------------------------------------------------------
(* The pipelines, one packet at a time *)

LEMMA TelemetryStep ==
    ASSUME TelemetryInv, NEW p \in Traffic, IngestTelemetry(p)
    PROVE  TelemetryInv'
<1> DEFINE key == StreamKey(p)
<1> DEFINE table == Put(telemetry.table, MetricKey(p), p)
<1>1. CASE TelemetryAnswer(telemetry, p) # "Accepted"
  <2>1. telemetry' = telemetry /\ telemetryAccepted' = telemetryAccepted
    BY <1>1 DEF IngestTelemetry, TelemetryAfter
  <2> QED
    BY <2>1 DEF TelemetryInv, CurrentIsNewest
<1>2. CASE TelemetryAnswer(telemetry, p) = "Accepted"
  <2>1. /\ telemetry' = Holding(telemetry, key, p, table)
        /\ telemetryAccepted' = telemetryAccepted \union {p}
    BY <1>2 DEF IngestTelemetry, TelemetryAfter
  <2>2. ~IsFull(telemetry) /\ ~IsOutOfOrder(telemetry, key, p)
    BY <1>2 DEF TelemetryAnswer
  <2>3. \A k \in DOMAIN table : table[k] \in Traffic
    BY DEF TelemetryInv, Typed, StageTypeOK, Put
  <2> HIDE DEF table, key
  <2>4. /\ Typed(telemetry', ArchiveCapacity) /\ telemetry'.rejects = telemetry.rejects
        /\ telemetry'.last = Put(telemetry.last, key, p.seq)
        /\ telemetry'.table = table
    BY <2>1, <2>2, <2>3, HoldingTyped, ReceiptAssumption DEF TelemetryInv
  <2>5. key \in DOMAIN telemetry.last => telemetry.last[key] <= p.seq
    BY <2>2, ReceiptAssumption DEF IsOutOfOrder, TelemetryInv, BothChecks, Typed, StageTypeOK
  <2>6. /\ DOMAIN telemetry'.last = DOMAIN telemetry.last \union {key}
        /\ telemetry'.last[key] = p.seq
        /\ \A k \in DOMAIN telemetry.last : k # key => telemetry'.last[k] = telemetry.last[k]
    BY <2>4 DEF Put
  <2>7. ASSUME NEW q \in telemetryAccepted'
        PROVE  /\ StreamKey(q) \in DOMAIN telemetry'.last
               /\ q.seq <= telemetry'.last[StreamKey(q)]
    <3>1. CASE q = p
      BY <2>6, <3>1, ReceiptAssumption DEF key
    <3>2. CASE q # p
      <4>1. /\ q \in telemetryAccepted /\ q.seq \in Nat /\ p.seq \in Nat
            /\ StreamKey(q) \in DOMAIN telemetry.last
            /\ q.seq <= telemetry.last[StreamKey(q)] /\ telemetry.last[StreamKey(q)] \in Nat
        BY <2>1, <3>2, ReceiptAssumption DEF TelemetryInv, Typed, StageTypeOK
      <4> QED
        BY <2>5, <2>6, <4>1
    <3> QED
      BY <3>1, <3>2
  <2>8. /\ DOMAIN telemetry'.table = DOMAIN telemetry.table \union {MetricKey(p)}
        /\ telemetry'.table[MetricKey(p)] = p
        /\ \A m \in DOMAIN telemetry.table :
              m # MetricKey(p) => telemetry'.table[m] = telemetry.table[m]
    BY <2>4 DEF table, Put
  <2>9. ASSUME NEW q \in telemetryAccepted'
        PROVE  /\ MetricKey(q) \in DOMAIN telemetry'.table
               /\ StreamKey(telemetry'.table[MetricKey(q)]) = StreamKey(q)
                    => q.seq <= telemetry'.table[MetricKey(q)].seq
    <3>1. CASE MetricKey(q) = MetricKey(p)
      <4>1. StreamKey(q) = key => q.seq <= p.seq
        BY <2>6, <2>7
      <4> QED
        BY <2>8, <3>1, <4>1 DEF key
    <3>2. CASE MetricKey(q) # MetricKey(p)
      <4>1. q \in telemetryAccepted
        BY <2>1, <3>2
      <4> QED
        BY <2>8, <3>2, <4>1 DEF TelemetryInv, CurrentIsNewest
    <3> QED
      BY <3>1, <3>2
  <2> QED
    BY <2>1, <2>4, <2>7, <2>9 DEF TelemetryInv, CurrentIsNewest
<1> QED
  BY <1>1, <1>2

LEMMA EventStep ==
    ASSUME EventsInv, NEW p \in Traffic, IngestEvent(p)
    PROVE  EventsInv'
<1> DEFINE key == StreamKey(p)
<1> DEFINE table == FaultsAfter(events.table, p)
<1>1. CASE EventAnswer(events, p) # "Accepted"
  <2>1. events' = events /\ eventsAccepted' = eventsAccepted
    BY <1>1 DEF IngestEvent, EventAfter
  <2> QED
    BY <2>1 DEF EventsInv, RecoveredFaultStaysOut
<1>2. CASE EventAnswer(events, p) = "Accepted"
  <2>1. /\ events' = Holding(events, key, p, table)
        /\ eventsAccepted' = eventsAccepted \union {p}
    BY <1>2 DEF IngestEvent, EventAfter
  <2>2. /\ ~IsFull(events) /\ ~IsOutOfOrder(events, key, p) /\ ~IsDuplicate(events, key, p)
    BY <1>2 DEF EventAnswer
  \* Every row of the table is the new fault or an old row the packet did not end.
  <2>3. \A k \in DOMAIN table :
           \/ table[k] = p /\ k = FaultKey(p) /\ p.kind = "fault"
           \/ /\ k \in DOMAIN events.table /\ table[k] = events.table[k]
              /\ p.kind = "recovery" => k # FaultKey(p)
    <3>1. CASE p.kind = "fault"
      BY <3>1 DEF FaultsAfter, Put
    <3>2. CASE p.kind = "recovery"
      BY <3>2 DEF FaultsAfter, Without
    <3>3. CASE p.kind \notin {"fault", "recovery"}
      BY <3>3 DEF FaultsAfter
    <3> QED
      BY <3>1, <3>2, <3>3
  <2> HIDE DEF table, key
  <2>4. \A k \in DOMAIN table : table[k] \in Traffic
    BY <2>3 DEF EventsInv, Typed, StageTypeOK
  <2>5. /\ Typed(events', ArchiveCapacity) /\ events'.rejects = events.rejects
        /\ events'.last = Put(events.last, key, p.seq)
        /\ events'.table = table
    BY <2>1, <2>2, <2>4, HoldingTyped, ReceiptAssumption DEF EventsInv
  <2>6. p.seq \in Nat /\ (key \in DOMAIN events.last => events.last[key] < p.seq)
    BY <2>2, ReceiptAssumption
    DEF IsOutOfOrder, IsDuplicate, EventsInv, BothChecks, Typed, StageTypeOK
  <2>7. /\ DOMAIN events'.last = DOMAIN events.last \union {key}
        /\ events'.last[key] = p.seq
        /\ \A k \in DOMAIN events.last : k # key => events'.last[k] = events.last[k]
    BY <2>5 DEF Put
  <2>8. ASSUME NEW q \in eventsAccepted
        PROVE  /\ q \in Traffic /\ q.seq \in Nat
               /\ StreamKey(q) \in DOMAIN events.last /\ events.last[StreamKey(q)] \in Nat
               /\ q.seq <= events.last[StreamKey(q)]
    BY ReceiptAssumption DEF EventsInv, Typed, StageTypeOK
  <2>9. ASSUME NEW q \in eventsAccepted'
        PROVE  /\ StreamKey(q) \in DOMAIN events'.last
               /\ q.seq <= events'.last[StreamKey(q)]
    <3>1. CASE q = p
      BY <2>6, <2>7, <3>1 DEF key
    <3>2. CASE q # p
      BY <2>1, <2>6, <2>7, <2>8, <3>2
    <3> QED
      BY <3>1, <3>2
  <2>10. ASSUME NEW k \in DOMAIN table, NEW q \in eventsAccepted',
                q.kind = "recovery", FaultKey(q) = k, StreamKey(q) = StreamKey(table[k])
         PROVE  q.seq < table[k].seq
    <3>1. CASE table[k] = p /\ p.kind = "fault"
      <4>1. q \in eventsAccepted /\ StreamKey(q) = key
        BY <2>1, <2>10, <3>1 DEF key
      <4> QED
        BY <2>6, <2>8, <3>1, <4>1
    <3>2. CASE k \in DOMAIN events.table /\ table[k] = events.table[k]
               /\ (p.kind = "recovery" => k # FaultKey(p))
      <4>1. q \in eventsAccepted
        BY <2>1, <2>10, <3>2
      <4> QED
        BY <2>10, <3>2, <4>1 DEF EventsInv, RecoveredFaultStaysOut
    <3> QED
      BY <2>3, <3>1, <3>2
  <2> QED
    BY <2>1, <2>5, <2>9, <2>10 DEF EventsInv, RecoveredFaultStaysOut
<1> QED
  BY <1>1, <1>2

LEMMA CommandStep ==
    ASSUME CommandsInv, NEW p \in Traffic, IngestCommand(p)
    PROVE  CommandsInv'
<1> DEFINE key == CommandStreamKey(p)
<1> DEFINE table == Put(commands.table, p.subject, p)
<1>1. CASE CommandAnswer(commands, p) # "Accepted"
  <2>1. commands' = commands /\ commandsAccepted' = commandsAccepted
    BY <1>1 DEF IngestCommand, CommandAfter
  <2> QED
    BY <2>1 DEF CommandsInv, CommandAcceptedOnce
<1>2. CASE CommandAnswer(commands, p) = "Accepted"
  <2>1. /\ commands' = Holding(commands, key, p, table)
        /\ commandsAccepted' = Append(commandsAccepted, p)
    BY <1>2 DEF IngestCommand, CommandAfter
  <2>2. /\ ~IsFull(commands) /\ ~IsOutOfOrder(commands, key, p)
        /\ p.subject \notin DOMAIN commands.table
    BY <1>2 DEF CommandAnswer, CommandsInv, BothChecks
  <2>3. \A k \in DOMAIN table : table[k] \in Traffic
    BY DEF CommandsInv, Typed, StageTypeOK, Put
  <2> HIDE DEF table, key
  <2>4. /\ Typed(commands', ArchiveCapacity) /\ commands'.rejects = commands.rejects
        /\ commands'.last = Put(commands.last, key, p.seq)
        /\ commands'.table = table
    BY <2>1, <2>2, <2>3, HoldingTyped, ReceiptAssumption DEF CommandsInv
  <2>5. p.seq \in Nat /\ (key \in DOMAIN commands.last => commands.last[key] <= p.seq)
    BY <2>2, ReceiptAssumption DEF IsOutOfOrder, CommandsInv, BothChecks, Typed, StageTypeOK
  <2>6. /\ DOMAIN commands'.last = DOMAIN commands.last \union {key}
        /\ commands'.last[key] = p.seq
        /\ \A k \in DOMAIN commands.last : k # key => commands'.last[k] = commands.last[k]
        /\ DOMAIN commands'.table = DOMAIN commands.table \union {p.subject}
    BY <2>4 DEF table, Put
  <2> DEFINE n == Len(commandsAccepted)
  <2>7. /\ n \in Nat /\ commandsAccepted' \in Seq(Traffic) /\ Len(commandsAccepted') = n + 1
        /\ commandsAccepted'[n + 1] = p
        /\ \A i \in 1 .. n : commandsAccepted'[i] = commandsAccepted[i]
    BY <2>1 DEF CommandsInv
  <2>8. ASSUME NEW i \in 1 .. n
        PROVE  /\ commandsAccepted[i] \in Traffic /\ commandsAccepted[i].seq \in Nat
               /\ commandsAccepted[i].subject \in DOMAIN commands.table
               /\ CommandStreamKey(commandsAccepted[i]) \in DOMAIN commands.last
               /\ commands.last[CommandStreamKey(commandsAccepted[i])] \in Nat
               /\ commandsAccepted[i].seq <= commands.last[CommandStreamKey(commandsAccepted[i])]
    BY ReceiptAssumption DEF CommandsInv, Typed, StageTypeOK
  <2> HIDE DEF n
  <2>9. ASSUME NEW i \in 1 .. n + 1
        PROVE  LET q == commandsAccepted'[i] IN
               /\ q.subject \in DOMAIN commands'.table
               /\ CommandStreamKey(q) \in DOMAIN commands'.last
               /\ q.seq <= commands'.last[CommandStreamKey(q)]
    <3>1. CASE i = n + 1
      BY <2>5, <2>6, <2>7, <3>1 DEF key
    <3>2. CASE i \in 1 .. n
      BY <2>5, <2>6, <2>7, <2>8, <3>2
    <3> QED
      BY <2>7, <3>1, <3>2
  <2>10. ASSUME NEW i \in 1 .. n + 1, NEW j \in 1 .. n + 1, i < j
         PROVE  /\ commandsAccepted'[i].subject # commandsAccepted'[j].subject
                /\ CommandStreamKey(commandsAccepted'[i]) = CommandStreamKey(commandsAccepted'[j])
                     => commandsAccepted'[i].seq <= commandsAccepted'[j].seq
    <3>1. CASE j = n + 1
      <4>1. i \in 1 .. n /\ commandsAccepted'[i] = commandsAccepted[i] /\ commandsAccepted'[j] = p
        BY <2>7, <2>10, <3>1
      <4> QED
        BY <2>2, <2>5, <2>8, <4>1 DEF key
    <3>2. CASE j \in 1 .. n
      <4>1. i \in 1 .. n
        BY <2>7, <2>10, <3>2
      <4> QED
        BY <2>7, <2>10, <3>2, <4>1 DEF CommandsInv, CommandAcceptedOnce, n
    <3> QED
      BY <2>7, <3>1, <3>2
  <2> QED
    BY <2>1, <2>4, <2>7, <2>9, <2>10 DEF CommandsInv, CommandAcceptedOnce
<1> QED
  BY <1>1, <1>2
-----------------------------------------------------------------------------
(* The actions *)

LEMMA ReceiptInitInv == ReceiptInit => ReceiptInv
<1> SUFFICES ASSUME ReceiptInit PROVE ReceiptInv
  OBVIOUS
<1>1. /\ Typed(station, QueueCapacity) /\ Typed(telemetry, ArchiveCapacity)
      /\ Typed(events, ArchiveCapacity) /\ Typed(commands, ArchiveCapacity)
      /\ telemetry.rejects = BothChecks /\ events.rejects = BothChecks
      /\ commands.rejects = BothChecks /\ DOMAIN events.table = {}
  BY NewStageTyped, ReceiptAssumption DEF ReceiptInit
<1>2. telemetryAccepted = {} /\ eventsAccepted = {} /\ commandsAccepted = <<>>
  BY DEF ReceiptInit
<1> QED
  BY <1>1, <1>2
  DEF ReceiptInv, TelemetryInv, EventsInv, CommandsInv, CurrentIsNewest, RecoveredFaultStaysOut,
      CommandAcceptedOnce

\* What a pipeline shows and remembers does not depend on what it holds.
LEMMA TelemetryKept ==
    ASSUME TelemetryInv, Typed(telemetry', ArchiveCapacity), telemetry'.rejects = telemetry.rejects,
           telemetry'.last = telemetry.last, telemetry'.table = telemetry.table,
           UNCHANGED telemetryAccepted
    PROVE  TelemetryInv'
BY DEF TelemetryInv, CurrentIsNewest

LEMMA EventsKept ==
    ASSUME EventsInv, Typed(events', ArchiveCapacity), events'.rejects = events.rejects,
           events'.last = events.last, UNCHANGED eventsAccepted,
           \A k \in DOMAIN events'.table :
               k \in DOMAIN events.table /\ events'.table[k] = events.table[k]
    PROVE  EventsInv'
BY DEF EventsInv, RecoveredFaultStaysOut

LEMMA CommandsKept ==
    ASSUME CommandsInv, Typed(commands', ArchiveCapacity), commands'.rejects = commands.rejects,
           commands'.last = commands.last, commands'.table = commands.table,
           UNCHANGED commandsAccepted
    PROVE  CommandsInv'
BY DEF CommandsInv, CommandAcceptedOnce

LEMMA ReceiptNextInv == ReceiptInv /\ [ReceiptNext]_receiptVars => ReceiptInv'
<1> SUFFICES ASSUME ReceiptInv, [ReceiptNext]_receiptVars PROVE ReceiptInv'
  OBVIOUS
<1> USE DEF ReceiptInv
<1> USE ReceiptAssumption
<1>1. UNCHANGED <<telemetry, telemetryAccepted>> => TelemetryInv'
  BY DEF TelemetryInv, CurrentIsNewest
<1>2. UNCHANGED <<events, eventsAccepted>> => EventsInv'
  BY DEF EventsInv, RecoveredFaultStaysOut
<1>3. UNCHANGED <<commands, commandsAccepted>> => CommandsInv'
  BY DEF CommandsInv, CommandAcceptedOnce
<1>4. ASSUME NEW p \in Traffic, IngestFrame(p) PROVE ReceiptInv'
  <2>1. CASE StationAnswer(station, p) = "Accepted"
    <3>1. ~IsFull(station)
      BY <2>1 DEF StationAnswer
    <3>2. station' = Holding(station, StreamKey(p), p, station.table)
      BY <1>4, <2>1 DEF IngestFrame, StationAfter
    <3>3. \A k \in DOMAIN station.table : station.table[k] \in Traffic
      BY DEF Typed, StageTypeOK
    <3>4. Typed(station', QueueCapacity)
      BY <3>1, <3>2, <3>3, HoldingTyped
    <3> QED
      BY <1>1, <1>2, <1>3, <1>4, <3>4 DEF IngestFrame, pipelineVars, acceptedVars
  <2>2. CASE StationAnswer(station, p) # "Accepted"
    BY <1>1, <1>2, <1>3, <1>4, <2>2 DEF IngestFrame, StationAfter, pipelineVars, acceptedVars
  <2> QED
    BY <2>1, <2>2
<1>5. CASE Dispatch
  <2>1. Head(station.held) \in Traffic
    BY <1>5 DEF Dispatch, Typed, StageTypeOK
  <2>2. Typed(station', QueueCapacity)
    BY <1>5, PoppedTyped DEF Dispatch
  <2> QED
    BY <1>5, <2>1, <2>2, TelemetryStep, EventStep, CommandStep DEF Dispatch
<1>6. CASE PopRecord
  <2>1. TelemetryInv'
    BY <1>6, PoppedTyped, TelemetryKept DEF PopRecord, acceptedVars, TelemetryInv
  <2> QED
    BY <1>2, <1>3, <1>6, <2>1 DEF PopRecord, acceptedVars
<1>7. CASE PopEvent
  <2>1. EventsInv'
    BY <1>7, PoppedTyped, EventsKept DEF PopEvent, acceptedVars, EventsInv
  <2> QED
    BY <1>1, <1>3, <1>7, <2>1 DEF PopEvent, acceptedVars
<1>8. CASE PopCommand
  <2>1. CommandsInv'
    BY <1>8, PoppedTyped, CommandsKept DEF PopCommand, acceptedVars, CommandsInv
  <2> QED
    BY <1>1, <1>2, <1>8, <2>1 DEF PopCommand, acceptedVars
<1>9. ASSUME NEW key \in DOMAIN events.table, ClearFault(key) PROVE ReceiptInv'
  <2>1. events' = [last |-> events.last, held |-> events.held,
                   table |-> Without(events.table, key),
                   capacity |-> events.capacity, rejects |-> events.rejects]
    BY <1>9 DEF ClearFault, EventsInv, Typed, IsStage
  <2>2. \A k \in DOMAIN events'.table :
            k \in DOMAIN events.table /\ events'.table[k] = events.table[k]
    BY <2>1 DEF Without
  <2>3. Typed(events', ArchiveCapacity)
    BY <2>1, <2>2 DEF EventsInv, Typed, IsStage, StageTypeOK
  <2>4. EventsInv'
    BY <1>9, <2>1, <2>2, <2>3, EventsKept DEF ClearFault, acceptedVars
  <2> QED
    BY <1>1, <1>3, <1>9, <2>4 DEF ClearFault, acceptedVars
<1>10. CASE ClearArchives
  <2>1. Typed(station', QueueCapacity)
    BY <1>10, ClearedTyped DEF ClearArchives
  <2>2. TelemetryInv'
    BY <1>10, ClearedTyped, TelemetryKept DEF ClearArchives, acceptedVars, TelemetryInv
  <2>3. EventsInv'
    BY <1>10, ClearedTyped, EventsKept DEF ClearArchives, acceptedVars, EventsInv
  <2>4. CommandsInv'
    BY <1>10, ClearedTyped, CommandsKept DEF ClearArchives, acceptedVars, CommandsInv
  <2> QED
    BY <2>1, <2>2, <2>3, <2>4
<1>11. CASE UNCHANGED receiptVars
  BY <1>1, <1>2, <1>3, <1>11 DEF receiptVars, pipelineVars, acceptedVars
<1> QED
  BY <1>4, <1>5, <1>6, <1>7, <1>8, <1>9, <1>10, <1>11 DEF ReceiptNext

THEOREM ReceiptInductive == ReceiptSpec => []ReceiptInv
<1> QED
  BY ReceiptInitInv, ReceiptNextInv, PTL DEF ReceiptSpec
-----------------------------------------------------------------------------
(* No queue exceeds its capacity, and every stage holds only what was sent. *)
THEOREM ReceiptTypeCorrect == ReceiptSpec => []ReceiptTypeOK
<1>1. ReceiptInv => ReceiptTypeOK
  BY DEF ReceiptInv, TelemetryInv, EventsInv, CommandsInv, Typed, ReceiptTypeOK
<1> QED
  BY <1>1, ReceiptInductive, PTL

(* get_current never goes back on a stream, for any order, loss and         *)
(* repetition of any packets.                                               *)
THEOREM CurrentStateIsNewest == ReceiptSpec => []CurrentIsNewest
<1>1. ReceiptInv => CurrentIsNewest
  BY DEF ReceiptInv, TelemetryInv
<1> QED
  BY <1>1, ReceiptInductive, PTL

(* A fault that was recovered on its own stream is not active again by a    *)
(* packet sent before the recovery.                                         *)
THEOREM RecoveredFaultsStayOut == ReceiptSpec => []RecoveredFaultStaysOut
<1>1. ReceiptInv => RecoveredFaultStaysOut
  BY DEF ReceiptInv, EventsInv
<1> QED
  BY <1>1, ReceiptInductive, PTL

(* A command ID is accepted once in the life of the pipeline, and the       *)
(* commands of a stream in the order of their numbers.                      *)
THEOREM CommandsAcceptedOnce == ReceiptSpec => []CommandAcceptedOnce
<1>1. ReceiptInv => CommandAcceptedOnce
  BY DEF ReceiptInv, CommandsInv
<1> QED
  BY <1>1, ReceiptInductive, PTL
-----------------------------------------------------------------------------
(* A stage of any owner *)

\* A stage that holds packets of P, no more than it may.
Sized(s, capacity, P) ==
    /\ IsStage(s) /\ s.capacity = capacity
    /\ s.held \in Seq(P) /\ Len(s.held) <= capacity

LEMMA NewSized ==
    ASSUME NEW capacity \in Nat, NEW rejects, NEW P
    PROVE  /\ Sized(NewStage(capacity, rejects), capacity, P)
           /\ DOMAIN NewStage(capacity, rejects).table = {}
<1> DEFINE s == NewStage(capacity, rejects)
<1>1. IsStage(s) /\ s.capacity = capacity /\ s.held = <<>> /\ DOMAIN s.table = {}
  BY DEF NewStage, IsStage, NoEntries
<1>2. <<>> \in Seq(P) /\ Len(<<>>) = 0
  OBVIOUS
<1> HIDE DEF s
<1>3. Sized(s, capacity, P)
  BY <1>1, <1>2 DEF Sized
<1> QED
  BY <1>1, <1>3 DEF s

LEMMA ClearedSized ==
    ASSUME NEW s, NEW capacity \in Nat, NEW P, Sized(s, capacity, P)
    PROVE  Sized(Cleared(s), capacity, P) /\ Cleared(s).table = s.table
<1>1. Cleared(s) = [last |-> s.last, held |-> <<>>, table |-> s.table,
                    capacity |-> s.capacity, rejects |-> s.rejects]
  BY DEF Cleared, Sized, IsStage
<1>2. <<>> \in Seq(P) /\ Len(<<>>) = 0
  OBVIOUS
<1> QED
  BY <1>1, <1>2 DEF Sized, IsStage

LEMMA HoldingSized ==
    ASSUME NEW s, NEW capacity \in Nat, NEW P, Sized(s, capacity, P), ~IsFull(s),
           NEW p \in P, NEW key, NEW table
    PROVE  /\ Sized(Holding(s, key, p, table), capacity, P)
           /\ Holding(s, key, p, table).table = table
<1> DEFINE h == Holding(s, key, p, table)
<1>1. /\ IsStage(h) /\ h.held = Append(s.held, p) /\ h.table = table
      /\ h.capacity = s.capacity
  BY DEF Holding, IsStage
<1> HIDE DEF h
<1>2. Append(s.held, p) \in Seq(P) /\ Len(Append(s.held, p)) <= capacity
  BY DEF IsFull, Sized
<1>3. Sized(h, capacity, P)
  BY <1>1, <1>2 DEF Sized
<1> QED
  BY <1>1, <1>3 DEF h

\* Station and pipeline take a packet when there is room, and are what they
\* were when they refuse it.
LEMMA StationSized ==
    ASSUME NEW s, NEW capacity \in Nat, NEW P, Sized(s, capacity, P), NEW p \in P
    PROVE  Sized(StationAfter(s, p), capacity, P)
<1>1. CASE StationAnswer(s, p) # "Accepted"
  BY <1>1 DEF StationAfter
<1>2. CASE StationAnswer(s, p) = "Accepted"
  <2>1. ~IsFull(s)
    BY <1>2 DEF StationAnswer
  <2>2. StationAfter(s, p) = Holding(s, StreamKey(p), p, s.table)
    BY <1>2 DEF StationAfter
  <2> QED
    BY <2>1, <2>2, HoldingSized
<1> QED
  BY <1>1, <1>2

LEMMA TelemetrySized ==
    ASSUME NEW s, NEW capacity \in Nat, NEW P, Sized(s, capacity, P), NEW p \in P
    PROVE  /\ Sized(TelemetryAfter(s, p), capacity, P)
           /\ TelemetryAnswer(s, p) = "Accepted" =>
                  TelemetryAfter(s, p).table = Put(s.table, MetricKey(p), p)
           /\ TelemetryAnswer(s, p) # "Accepted" => TelemetryAfter(s, p) = s
<1>1. CASE TelemetryAnswer(s, p) # "Accepted"
  BY <1>1 DEF TelemetryAfter
<1>2. CASE TelemetryAnswer(s, p) = "Accepted"
  <2> DEFINE table == Put(s.table, MetricKey(p), p)
  <2>1. ~IsFull(s)
    BY <1>2 DEF TelemetryAnswer
  <2>2. TelemetryAfter(s, p) = Holding(s, StreamKey(p), p, table)
    BY <1>2 DEF TelemetryAfter
  <2> HIDE DEF table
  <2>3. Sized(TelemetryAfter(s, p), capacity, P) /\ TelemetryAfter(s, p).table = table
    BY <2>1, <2>2, HoldingSized
  <2> QED
    BY <1>2, <2>3 DEF table
<1> QED
  BY <1>1, <1>2
-----------------------------------------------------------------------------
(* The round trip *)

\* Everything the spacecraft sends down.
Sent == [type : {"event", "telemetry"}, kind : {"invalid", "metric"}, source : {"VIKRAM"},
         origin : {"VIKRAM"}, app : {502}, seq : Nat,
         subject : {"COMMAND_ACK"} \union {Metrics[i] : i \in 1 .. 3},
         value : Nat \union Statuses]

MetricRow(i) == <<"VIKRAM", "VIKRAM", Metrics[i]>>

\* The rows that are shown are the first ones, and a row is at least as new as
\* the rows behind it: the reports of one command are sent in their order.
RowsTell(table, state) ==
    /\ DOMAIN table \subseteq {MetricRow(i) : i \in 1 .. 3}
    /\ \A i \in 1 .. 3 : MetricRow(i) \in DOMAIN table => table[MetricRow(i)].value \in 0 .. state
    /\ \A i, j \in 1 .. 3 : i < j /\ MetricRow(j) \in DOMAIN table =>
          MetricRow(i) \in DOMAIN table /\ table[MetricRow(i)].value >= table[MetricRow(j)].value

\* The first n rows show this state.
RowsShow(table, n, state) ==
    \A i \in 1 .. 3 : i <= n =>
        MetricRow(i) \in DOMAIN table /\ table[MetricRow(i)].value = state

OutcomeTells ==
    /\ outcome.status \in RoundTripStatuses /\ outcome.spacecraft \in Statuses
    /\ outcome.status = "Applied" => outcome.moved /\ RowsShow(records.table, 3, simulation)
    /\ outcome.status = "SpacecraftRejected" => ~outcome.moved

RoundTripInv ==
    /\ simulation \in 0 .. MaxSimulated /\ nextTelemetry \in Nat
    /\ Sized(receiver, ReceiveCapacity, Sent) /\ Sized(records, RecordCapacity, Sent)
    /\ RowsTell(records.table, simulation)
    /\ OutcomeTells

LEMMA RowsDiffer == \A i, j \in 1 .. 3 : MetricRow(i) = MetricRow(j) => i = j
<1>1. \A i \in 1 .. 3 : i = 1 \/ i = 2 \/ i = 3
  OBVIOUS
<1>2. /\ MetricRow(1) # MetricRow(2) /\ MetricRow(1) # MetricRow(3)
      /\ MetricRow(2) # MetricRow(3)
  BY DEF MetricRow, Metrics
<1> QED
  BY <1>1, <1>2

\* What an answer of the downlink may look like while the reports are sent.
ReportsSoFar(d, n, state) ==
    /\ d = [station |-> d.station, pipeline |-> d.pipeline, next |-> d.next, status |-> d.status]
    /\ Sized(d.station, ReceiveCapacity, Sent) /\ Sized(d.pipeline, RecordCapacity, Sent)
    /\ d.next \in Nat
    /\ d.status \in {"Applied", "GroundReceptionFailed", "TelemetryIngestionFailed"}
    /\ RowsTell(d.pipeline.table, state)
    /\ d.status = "Applied" => RowsShow(d.pipeline.table, n, state)

LEMMA RowPut ==
    ASSUME NEW table, NEW state \in Nat, RowsTell(table, state), NEW i \in 1 .. 3,
           RowsShow(table, i - 1, state), NEW p, p.value = state
    PROVE  /\ RowsTell(Put(table, MetricRow(i), p), state)
           /\ RowsShow(Put(table, MetricRow(i), p), i, state)
<1> DEFINE new == Put(table, MetricRow(i), p)
<1>1. /\ DOMAIN new = DOMAIN table \union {MetricRow(i)} /\ new[MetricRow(i)] = p
      /\ \A k \in DOMAIN table : k # MetricRow(i) => new[k] = table[k]
  BY DEF Put
<1> HIDE DEF new
<1>2. DOMAIN new \subseteq {MetricRow(j) : j \in 1 .. 3}
  BY <1>1 DEF RowsTell
<1>3. \A j \in 1 .. 3 : j # i => MetricRow(j) # MetricRow(i)
  BY RowsDiffer
<1>4. \A j \in 1 .. 3 : j # i =>
          /\ MetricRow(j) \in DOMAIN new <=> MetricRow(j) \in DOMAIN table
          /\ MetricRow(j) \in DOMAIN table => new[MetricRow(j)] = table[MetricRow(j)]
  BY <1>1, <1>3
<1>5. MetricRow(i) \in DOMAIN new /\ new[MetricRow(i)].value = state
  BY <1>1
<1>6. RowsShow(new, i, state)
  BY <1>4, <1>5 DEF RowsShow
<1>7. \A j \in 1 .. 3 : MetricRow(j) \in DOMAIN new => new[MetricRow(j)].value \in 0 .. state
  BY <1>4, <1>5 DEF RowsTell
<1>8. ASSUME NEW j \in 1 .. 3, NEW k \in 1 .. 3, j < k, MetricRow(k) \in DOMAIN new
      PROVE  MetricRow(j) \in DOMAIN new /\ new[MetricRow(j)].value >= new[MetricRow(k)].value
  <2>1. CASE j <= i
    <3>1. MetricRow(j) \in DOMAIN new /\ new[MetricRow(j)].value = state
      BY <1>6, <2>1 DEF RowsShow
    <3>2. new[MetricRow(k)].value \in 0 .. state
      BY <1>7, <1>8
    <3> QED
      BY <3>1, <3>2
  <2>2. CASE j > i
    <3>1. j # i /\ k # i
      BY <1>8, <2>2
    <3>2. MetricRow(k) \in DOMAIN table
      BY <1>4, <1>8, <3>1
    <3>3. MetricRow(j) \in DOMAIN table /\ table[MetricRow(j)].value >= table[MetricRow(k)].value
      BY <1>8, <3>2 DEF RowsTell
    <3> QED
      BY <1>4, <3>1, <3>2, <3>3
  <2> QED
    BY <2>1, <2>2
<1>9. RowsTell(new, state)
  BY <1>2, <1>7, <1>8 DEF RowsTell
<1> QED
  BY <1>6, <1>9 DEF new

LEMMA ReportSent ==
    ASSUME NEW i \in 1 .. 3, NEW next \in Nat, NEW state \in Nat
    PROVE  /\ Report(i, next, state) \in Sent /\ Report(i, next, state).value = state
           /\ MetricKey(Report(i, next, state)) = MetricRow(i)
<1> DEFINE name == Metrics[i]
<1>1. Report(i, next, state) =
        [type |-> "telemetry", kind |-> "metric", source |-> "VIKRAM", origin |-> "VIKRAM",
         app |-> 502, seq |-> next, subject |-> name, value |-> state]
  BY DEF Report, Down
<1>2. name \in {"COMMAND_ACK"} \union {Metrics[j] : j \in 1 .. 3}
  OBVIOUS
<1>3. MetricRow(i) = <<"VIKRAM", "VIKRAM", name>>
  BY DEF MetricRow
<1> HIDE DEF name
<1> QED
  BY <1>1, <1>2, <1>3 DEF Sent, MetricKey

\* One report: it is shown, or the call ends with the reason.
LEMMA ReportStepTells ==
    ASSUME NEW d, NEW i \in 1 .. 3, NEW state \in Nat, ReportsSoFar(d, i - 1, state),
           ReceiveCapacity \in Nat, RecordCapacity \in Nat
    PROVE  ReportsSoFar(ReportStep(d, i, state), i, state)
<1> DEFINE packet == Report(i, d.next, state)
<1> DEFINE heard == StationAnswer(d.station, packet)
<1> DEFINE told == TelemetryAnswer(d.pipeline, packet)
<1>0. d.next \in Nat
  BY DEF ReportsSoFar
<1>1. packet \in Sent /\ packet.value = state /\ MetricKey(packet) = MetricRow(i)
  BY <1>0, ReportSent
<1>2. CASE d.status # "Applied"
  BY <1>2 DEF ReportStep, ReportsSoFar
<1>3. CASE d.status = "Applied" /\ heard # "Accepted"
  <2>1. ReportStep(d, i, state) = [d EXCEPT !.status = "GroundReceptionFailed"]
    BY <1>3 DEF ReportStep
  <2>2. ReportStep(d, i, state) = [station |-> d.station, pipeline |-> d.pipeline,
                                   next |-> d.next, status |-> "GroundReceptionFailed"]
    BY <2>1 DEF ReportsSoFar
  <2> QED
    BY <2>2 DEF ReportsSoFar
<1>4. CASE d.status = "Applied" /\ heard = "Accepted"
  <2> DEFINE received == StationAfter(d.station, packet)
  <2> DEFINE pipeline == TelemetryAfter(d.pipeline, packet)
  <2> DEFINE status == IF told = "Accepted" THEN "Applied" ELSE "TelemetryIngestionFailed"
  <2>1. ReportStep(d, i, state) = [station |-> received, pipeline |-> pipeline,
                                   next |-> d.next + 1, status |-> status]
    BY <1>4 DEF ReportStep
  <2> HIDE DEF packet, heard
  <2>2. Sized(received, ReceiveCapacity, Sent)
    BY <1>1, StationSized DEF ReportsSoFar
  <2>3. /\ Sized(pipeline, RecordCapacity, Sent)
        /\ told = "Accepted" => pipeline.table = Put(d.pipeline.table, MetricRow(i), packet)
        /\ told # "Accepted" => pipeline = d.pipeline
    BY <1>1, TelemetrySized DEF ReportsSoFar
  <2> HIDE DEF received, pipeline, told
  <2>4. CASE told = "Accepted"
    <3>1. RowsTell(pipeline.table, state) /\ RowsShow(pipeline.table, i, state)
      BY <1>1, <1>4, <2>3, <2>4, RowPut DEF ReportsSoFar
    <3> QED
      BY <1>0, <2>1, <2>2, <2>3, <2>4, <3>1 DEF ReportsSoFar
  <2>5. CASE told # "Accepted"
    <3>1. RowsTell(pipeline.table, state)
      BY <2>3, <2>5 DEF ReportsSoFar
    <3> QED
      BY <1>0, <2>1, <2>2, <2>3, <2>5, <3>1 DEF ReportsSoFar
  <2> QED
    BY <2>4, <2>5
<1> QED
  BY <1>2, <1>3, <1>4

LEMMA ReportsTell ==
    ASSUME NEW d, NEW state \in Nat, ReportsSoFar(d, 0, state),
           ReceiveCapacity \in Nat, RecordCapacity \in Nat
    PROVE  ReportsSoFar(Reports(d, state), 3, state)
<1>1. ReportsSoFar(ReportStep(d, 1, state), 1, state)
  BY ReportStepTells, 1 - 1 = 0, 1 \in 1 .. 3
<1>2. ReportsSoFar(ReportStep(ReportStep(d, 1, state), 2, state), 2, state)
  BY <1>1, ReportStepTells, 2 - 1 = 1, 2 \in 1 .. 3
<1> QED
  BY <1>2, ReportStepTells, 3 - 1 = 2, 3 \in 1 .. 3 DEF Reports

\* A later state of the simulation says no less about what is shown.
LEMMA RowsTellLater ==
    ASSUME NEW table, NEW state \in Nat, RowsTell(table, state)
    PROVE  RowsTell(table, state + 1)
<1>1. \A v \in 0 .. state : v \in 0 .. state + 1
  OBVIOUS
<1> QED
  BY <1>1 DEF RowsTell


\* What a call leaves behind, by the status the link answered.
CallTells(d, status, state) ==
    /\ d.next \in Nat
    /\ Sized(d.station, ReceiveCapacity, Sent) /\ Sized(d.pipeline, RecordCapacity, Sent)
    /\ RowsTell(d.pipeline.table, state)
    /\ d.status \in RoundTripStatuses
    /\ d.status = "Applied" => status = "Applied" /\ RowsShow(d.pipeline.table, 3, state)
    /\ d.status = "SpacecraftRejected" => status # "Applied"

LEMMA AcknowledgementSent ==
    ASSUME NEW status \in Statuses
    PROVE  Acknowledgement(status) \in Sent
<1>1. AckSequence \in Nat
  BY RoundTripAssumption
<1> QED
  BY <1>1 DEF Acknowledgement, Down, Sent

LEMMA DownlinkTells ==
    ASSUME RoundTripInv, NEW status \in Statuses,
           NEW state \in Nat, RowsTell(records.table, state)
    PROVE  CallTells(Downlink(status, state), status, state)
<1> DEFINE ack == Acknowledgement(status)
<1> DEFINE received == StationAfter(receiver, ack)
<1> DEFINE heard == StationAnswer(receiver, ack)
<1> DEFINE d(s) == [station |-> received, pipeline |-> records, next |-> nextTelemetry, status |-> s]
<1>0. ReceiveCapacity \in Nat /\ RecordCapacity \in Nat
  BY RoundTripAssumption
<1>1. /\ Sized(received, ReceiveCapacity, Sent) /\ Sized(records, RecordCapacity, Sent)
      /\ nextTelemetry \in Nat
  BY <1>0, AcknowledgementSent, StationSized DEF RoundTripInv
<1>2. Downlink(status, state) =
        IF heard # "Accepted" THEN [d("Applied") EXCEPT !.status = "GroundReceptionFailed"]
        ELSE IF status = "Applied" THEN Reports(d("Applied"), state)
        ELSE [d("Applied") EXCEPT !.status = "SpacecraftRejected"]
  BY DEF Downlink
<1> HIDE DEF heard, received
<1>3. \A s \in RoundTripStatuses : [d("Applied") EXCEPT !.status = s] = d(s)
  OBVIOUS
<1>4. {"GroundReceptionFailed", "SpacecraftRejected", "TelemetryIngestionFailed", "Applied"}
          \subseteq RoundTripStatuses
  BY DEF RoundTripStatuses
<1>5. CASE heard # "Accepted"
  <2>1. Downlink(status, state) = d("GroundReceptionFailed")
    BY <1>2, <1>3, <1>4, <1>5
  <2> QED
    BY <1>1, <1>4, <2>1 DEF CallTells
<1>6. CASE heard = "Accepted" /\ status # "Applied"
  <2>1. Downlink(status, state) = d("SpacecraftRejected")
    BY <1>2, <1>3, <1>4, <1>6
  <2> QED
    BY <1>1, <1>4, <1>6, <2>1 DEF CallTells
<1>7. CASE heard = "Accepted" /\ status = "Applied"
  <2>1. Downlink(status, state) = Reports(d("Applied"), state)
    BY <1>2, <1>7
  <2>2. ReportsSoFar(d("Applied"), 0, state)
    BY <1>1 DEF ReportsSoFar, RowsShow
  <2> HIDE DEF d
  <2>3. ReportsSoFar(Downlink(status, state), 3, state)
    BY <1>0, <2>1, <2>2, ReportsTell
  <2> QED
    BY <1>4, <1>7, <2>3 DEF ReportsSoFar, CallTells
<1> QED
  BY <1>5, <1>6, <1>7
-----------------------------------------------------------------------------
LEMMA RoundTripInitInv == RoundTripInit => RoundTripInv
<1> SUFFICES ASSUME RoundTripInit PROVE RoundTripInv
  OBVIOUS
<1> USE RoundTripAssumption
<1>1. /\ Sized(receiver, ReceiveCapacity, Sent) /\ Sized(records, RecordCapacity, Sent)
      /\ DOMAIN records.table = {}
  BY NewSized DEF RoundTripInit
<1>2. RowsTell(records.table, simulation)
  BY <1>1 DEF RowsTell
<1>3. OutcomeTells
  BY DEF RoundTripInit, NoOutcome, OutcomeTells, RoundTripStatuses, Statuses
<1> QED
  BY <1>1, <1>2, <1>3 DEF RoundTripInit, RoundTripInv

LEMMA ExecuteInv ==
    ASSUME RoundTripInv, NEW c \in SpacecraftCommands, NEW stepFails \in BOOLEAN,
           ExecuteRoundTrip(c, stepFails)
    PROVE  RoundTripInv'
<1> DEFINE status == LinkStatus(c, stepFails)
<1> DEFINE state == IF status = "Applied" THEN simulation + 1 ELSE simulation
<1> DEFINE down == Downlink(status, state)
<1>1. status \in Statuses
  BY DEF LinkStatus, Statuses
<1>2. /\ status = "Applied" => simulation < MaxSimulated
      /\ simulation' = state
      /\ receiver' = down.station /\ records' = down.pipeline
      /\ nextTelemetry' = down.next
      /\ outcome' = [status |-> down.status, spacecraft |-> status, moved |-> status = "Applied"]
  BY DEF ExecuteRoundTrip
<1> HIDE DEF status
<1>3. state \in 0 .. MaxSimulated /\ RowsTell(records.table, state)
  <2>1. CASE status = "Applied"
    BY <1>2, <2>1, RoundTripAssumption, RowsTellLater DEF RoundTripInv
  <2>2. CASE status # "Applied"
    BY <2>2 DEF RoundTripInv
  <2> QED
    BY <2>1, <2>2
<1> HIDE DEF state
<1>4. CallTells(down, status, state)
  BY <1>1, <1>3, DownlinkTells
<1> HIDE DEF down
<1>5. outcome'.status = down.status /\ outcome'.spacecraft = status
      /\ (status = "Applied" => outcome'.moved) /\ (status # "Applied" => ~outcome'.moved)
  BY <1>2
<1>6. OutcomeTells'
  BY <1>1, <1>2, <1>4, <1>5 DEF CallTells, OutcomeTells
<1> QED
  BY <1>2, <1>3, <1>4, <1>6 DEF CallTells, RoundTripInv

LEMMA RoundTripNextInv == RoundTripInv /\ [RoundTripNext]_roundTripVars => RoundTripInv'
<1> SUFFICES ASSUME RoundTripInv, [RoundTripNext]_roundTripVars PROVE RoundTripInv'
  OBVIOUS
<1>1. ASSUME NEW c \in SpacecraftCommands, RejectUplink(c) PROVE RoundTripInv'
  <2>1. /\ UNCHANGED <<simulation, receiver, records, nextTelemetry>>
        /\ outcome' = [status |-> "SpacecraftRejected", spacecraft |-> "not sent", moved |-> FALSE]
    BY <1>1 DEF RejectUplink, NoOutcome
  <2>2. OutcomeTells'
    BY <2>1 DEF OutcomeTells, RoundTripStatuses, Statuses
  <2> QED
    BY <2>1, <2>2 DEF RoundTripInv
<1>2. ASSUME NEW c \in SpacecraftCommands, NEW stepFails \in BOOLEAN,
             ExecuteRoundTrip(c, stepFails)
      PROVE  RoundTripInv'
  BY <1>2, ExecuteInv
<1>3. CASE ResetRoundTrip
  <2>1. /\ Sized(receiver', ReceiveCapacity, Sent) /\ Sized(records', RecordCapacity, Sent)
        /\ records'.table = records.table
    BY <1>3, ClearedSized, RoundTripAssumption DEF ResetRoundTrip, RoundTripInv
  <2>2. nextTelemetry' \in Nat /\ simulation' = simulation /\ outcome' = outcome
    BY <1>3, RoundTripAssumption DEF ResetRoundTrip
  <2>3. OutcomeTells'
    BY <2>1, <2>2 DEF OutcomeTells, RoundTripInv
  <2> QED
    BY <2>1, <2>2, <2>3 DEF RoundTripInv
<1>4. CASE UNCHANGED roundTripVars
  BY <1>4 DEF roundTripVars, RoundTripInv, OutcomeTells
<1> QED
  BY <1>1, <1>2, <1>3, <1>4 DEF RoundTripNext

(* Neither the station nor the telemetry pipeline outgrows its capacity,    *)
(* and the outcome is one of those the caller knows.                        *)
THEOREM RoundTripTyped == RoundTripSpec => []RoundTripTypeOK
<1>1. RoundTripInv => RoundTripTypeOK
  BY DEF RoundTripInv, Sized, OutcomeTells, RoundTripTypeOK
<1> QED
  BY <1>1, RoundTripInitInv, RoundTripNextInv, PTL DEF RoundTripSpec

(* For any capacities, sequence numbers and resets: "Applied" means the     *)
(* simulation moved and the ground shows all of its state, "Spacecraft-     *)
(* Rejected" that it did not move, and nothing shown is older than what is  *)
(* reported after it or newer than the simulation.                          *)
THEOREM RoundTripAnswersTell == RoundTripSpec => []RoundTripTells
<1>1. RoundTripInv => RoundTripTells
  <2> SUFFICES ASSUME RoundTripInv PROVE RoundTripTells
    OBVIOUS
  <2>1. DOMAIN Metrics = 1 .. 3
    BY DEF Metrics
  <2>2. \A i \in 1 .. 3 : Shown(Metrics[i]) = records.table[MetricRow(i)].value
    BY DEF Shown, MetricRow
  <2>3. \A i \in 1 .. 3 : MetricRow(i)[3] = Metrics[i]
    BY DEF MetricRow
  <2>4. \A i, j \in 1 .. 3 : Metrics[i] = Metrics[j] => i = j
    BY RowsDiffer DEF MetricRow
  <2>5. \A i \in 1 .. 3 : Metrics[i] \in ShownMetrics <=> MetricRow(i) \in DOMAIN records.table
    BY <2>3, <2>4 DEF ShownMetrics, RoundTripInv, RowsTell
  <2>6. \A m \in ShownMetrics : \E i \in 1 .. 3 : m = Metrics[i]
    BY <2>3 DEF ShownMetrics, RoundTripInv, RowsTell
  <2>7. \A m \in ShownMetrics : Shown(m) <= simulation
    BY <2>2, <2>5, <2>6 DEF RoundTripInv, RowsTell
  <2>8. \A i, j \in DOMAIN Metrics : i < j /\ Metrics[j] \in ShownMetrics =>
            Metrics[i] \in ShownMetrics /\ Shown(Metrics[i]) >= Shown(Metrics[j])
    BY <2>1, <2>2, <2>5 DEF RoundTripInv, RowsTell
  <2>9. outcome.status = "Applied" =>
            /\ outcome.moved
            /\ \A i \in DOMAIN Metrics :
                  Metrics[i] \in ShownMetrics /\ Shown(Metrics[i]) = simulation
    BY <2>1, <2>2, <2>5 DEF RoundTripInv, OutcomeTells, RowsShow
  <2>10. outcome.status = "SpacecraftRejected" => ~outcome.moved
    BY DEF RoundTripInv, OutcomeTells
  <2> QED
    BY <2>7, <2>8, <2>9, <2>10 DEF RoundTripTells
<1> QED
  BY <1>1, RoundTripInitInv, RoundTripNextInv, PTL DEF RoundTripSpec
-----------------------------------------------------------------------------
(* What a command does to a vehicle *)

\* Every rule of the rover gives a rover back.
LEMMA RoverRulesTyped ==
    ASSUME NEW r \in RoverType
    PROVE  /\ StartRover(r) \in RoverType
           /\ StopRover(r) \in RoverType
           /\ \A draw \in Draws : StepTowardWaypoint(r, draw) \in RoverType
<1>1. DeployFromLander(r) \in RoverType
  BY DEF DeployFromLander, RoverType, RoverModes
<1>2. \A x \in RoverType : InitializeSurfaceSystems(x) \in RoverType
  BY DEF InitializeSurfaceSystems, RoverType, RoverModes
<1>3. StartRover(r) \in RoverType
  BY <1>1, <1>2 DEF StartRover
<1>4. StopRover(r) \in RoverType
  BY DEF StopRover, RoverType, RoverModes
<1>5. ASSUME NEW draw \in Draws
      PROVE  StepTowardWaypoint(r, draw) \in RoverType
  <2>1. r.place + 1 \in Nat
    BY DEF RoverType
  <2>2. CASE draw = "hazard"
    BY <2>2 DEF StepTowardWaypoint, RoverType, RoverModes
  <2>3. CASE draw = "dies"
    <3>1. StepTowardWaypoint(r, draw) =
            [r EXCEPT !.mode = "Fault", !.moving = FALSE, !.place = r.place + 1,
                      !.charge = "below 0.15"]
      BY <2>3 DEF StepTowardWaypoint
    <3> QED
      BY <2>1, <3>1 DEF RoverType, RoverModes, Charges
  <2>4. CASE draw \notin {"hazard", "dies"}
    <3> DEFINE left == IF draw = "drains" THEN "below 0.30" ELSE r.charge
               going == (draw # "rests")
    <3>1. StepTowardWaypoint(r, draw) =
            [r EXCEPT !.mode = "Driving", !.place = r.place + 1, !.moving = going,
                      !.charge = left]
      BY <2>4 DEF StepTowardWaypoint
    <3>2. left \in Charges /\ going \in BOOLEAN
      BY DEF RoverType, Charges
    <3> HIDE DEF left, going
    <3> QED
      BY <2>1, <3>1, <3>2 DEF RoverType, RoverModes
  <2> QED
    BY <2>2, <2>3, <2>4
<1> QED
  BY <1>3, <1>4, <1>5

\* Whatever is asked, the adapter stays an adapter and counts its steps up.
LEMMA AdapterTyped ==
    ASSUME NEW a \in AdapterType, NEW c, NEW draw \in Draws
    PROVE  AdapterAfter(a, c, draw) \in AdapterType
<1>1. a.rover \in RoverType /\ a.snapshot \in RoverType /\ a.steps \in Nat /\ a.steps + 1 \in Nat
  BY DEF AdapterType
<1>2. RoverAfter(a, c, draw) \in RoverType
  BY <1>1, RoverRulesTyped DEF RoverAfter
<1> QED
  BY <1>1, <1>2 DEF AdapterAfter, AdapterType

\* What the rules ask of a command.
IsCommand(c) ==
    c.opcode \in Opcodes /\ (c.opcode = "SET_MODE" => c.parameters \in Modes \union {""})

LEMMA LogicalTyped ==
    ASSUME NEW s \in LogicalState, NEW c, IsCommand(c), c.target \in Targets
    PROVE  LogicalAfter(s, c) \in LogicalState
<1>1. CASE LogicalAnswer(s, c) # "Executed"
  BY <1>1 DEF LogicalAfter
<1>2. CASE LogicalAnswer(s, c) = "Executed"
  <2>1. LogicalAfter(s, c) = LogicalEffect(s, c)
    BY <1>2 DEF LogicalAfter
  <2>2. c.opcode \in Opcodes \ {"unknown"}
    BY <1>2 DEF LogicalAnswer, IsCommand, AllowedInSafeMode
  <2>3. CASE c.opcode = "SET_MODE"
    <3>1. c.parameters \in Modes
      BY <1>2, <2>3 DEF LogicalAnswer, IsCommand, AllowedInSafeMode
    <3> QED
      BY <2>1, <2>3, <3>1 DEF LogicalEffect, LogicalState
  <2>4. CASE c.opcode \in {"START_ROVER", "DRIVE", "STOP_ROVER", "STOP"}
    BY <2>1, <2>4 DEF LogicalEffect, LogicalState, Modes
  <2>5. CASE c.opcode \in {"START_SCIENCE", "TRANSMIT_DATA"}
    BY <2>1, <2>5 DEF LogicalEffect, LogicalState, Modes
  <2>8. CASE c.opcode = "ENTER_SAFE_MODE"
    BY <2>1, <2>8 DEF LogicalEffect, LogicalState, Modes
  <2>6. CASE c.opcode = "STOP_SCIENCE"
    BY <2>1, <2>6 DEF LogicalEffect, LogicalState, Modes
  <2>7. CASE c.opcode \in {"RESET_SUBSYSTEM", "EXIT_SAFE_MODE"}
    BY <2>1, <2>7 DEF LogicalEffect, LogicalState, Modes
  <2> QED
    BY <2>2, <2>3, <2>4, <2>5, <2>6, <2>7, <2>8 DEF Opcodes
<1> QED
  BY <1>1, <1>2
-----------------------------------------------------------------------------
(* The bridge.  Nothing in the pipes or in the buffer belongs to a later   *)
(* call than the last.  Until two readers meet in the buffer there is one  *)
(* at most, the pipes hold at most one line for it and the surplus, in the *)
(* order of the calls; so the line at place p is for a call that is p      *)
(* places before the end at most, the surplus and the reader not counted.  *)

Failures == {"write failed", "read failed", "deadline exceeded", "malformed", "error"}
AdapterAnswers == {"Applied", "UnsupportedTarget", "PhysicalFault", "PreconditionsFailed",
                   "InvalidParameters", "UnsupportedOpcode"}
BridgeResult == [call : Nat, answer : Failures \union AdapterAnswers, steps : Nat]
BridgeRequest == [call : Nat, command : BridgeCommands \union {Malformed, Blank}]

PipesTyped ==
    /\ alive \in BOOLEAN /\ waiting \in BOOLEAN /\ torn \in BOOLEAN
    /\ requests \in Seq(BridgeRequest)
    /\ lines \in Seq(BridgeResult)
    /\ results \in Seq(BridgeResult)
    /\ buffered \subseteq BridgeResult
    /\ readers \subseteq 1 .. calls
    /\ ~alive => requests = <<>>

ReaderAlone ==
    /\ waiting => calls \in readers
    /\ ~torn => \A r, s \in readers : r = s

\* The lines under way, the answers before the requests, and whose line is at place p.
Pending == Len(lines) + Len(requests)
At(p) == IF p <= Len(lines) THEN lines[p].call ELSE requests[p - Len(lines)].call
InBuffer == IF readers = {} THEN 0 ELSE 1

NeverEarly ==
    /\ \A p \in 1 .. Pending : At(p) <= calls
    /\ \A line \in buffered : line.call <= calls

PipeInStep ==
    ~torn =>
        /\ alive => Pending <= surplus + InBuffer
        /\ alive \/ waiting =>
              \A p \in 1 .. Pending : calls + p <= At(p) + surplus + InBuffer
        /\ \A p, q \in 1 .. Pending : p < q => At(p) <= At(q)
        /\ \A j \in Answered : \A p \in 1 .. Pending : results[j].call <= At(p)

BridgeInv ==
    BridgeTypeOK /\ PipesTyped /\ ReaderAlone /\ NeverEarly /\ PipeInStep /\ AnswersInOrder

LEMMA BridgeFresh == BridgeInit => BridgeInv
<1> SUFFICES ASSUME BridgeInit PROVE BridgeInv
  OBVIOUS
<1>1. BridgeTypeOK
  <2>1. StandBy \in LogicalState
    BY DEF StandBy, LogicalState, Modes
  <2>2. StowedRover \in RoverType
    BY DEF StowedRover, RoverType, RoverModes, Charges
  <2>3. NewAdapter \in AdapterType
    BY <2>2 DEF NewAdapter, AdapterType
  <2> QED
    BY BridgeAssumption, <2>1, <2>3 DEF BridgeInit, BridgeTypeOK
<1>2. PipesTyped
  <2>1. <<>> \in Seq(BridgeResult) /\ <<>> \in Seq(BridgeRequest)
    OBVIOUS
  <2> QED
    BY <2>1 DEF BridgeInit, PipesTyped
<1>3. ReaderAlone
  BY DEF BridgeInit, ReaderAlone
<1>4. Answered = {} /\ AnswersInOrder
  BY DEF BridgeInit, Answered, AnswersInOrder
<1>5. Pending = 0
  BY DEF BridgeInit, Pending
<1>6. NeverEarly
  BY <1>5 DEF BridgeInit, NeverEarly
<1>7. PipeInStep
  BY <1>4, <1>5 DEF BridgeInit, PipeInStep, InBuffer
<1> QED
  BY <1>1, <1>2, <1>3, <1>4, <1>6, <1>7 DEF BridgeInv

\* What appending a result makes of the answers.
LEMMA ResultAppended ==
    ASSUME results \in Seq(BridgeResult), NEW x \in BridgeResult, results' = Append(results, x),
           NEW n \in Nat, n = Len(results) + 1
    PROVE  /\ results' \in Seq(BridgeResult) /\ Len(results') = n
           /\ \A k \in Answered : k \in 1 .. Len(results) /\ results'[k] = results[k]
           /\ results'[n] = x
           /\ Answered' = IF x.call = 0 THEN Answered ELSE Answered \union {n}
<1>1. /\ results' \in Seq(BridgeResult) /\ Len(results') = n
      /\ DOMAIN results = 1 .. Len(results) /\ Len(results) \in Nat
      /\ DOMAIN results' = 1 .. n
      /\ \A k \in 1 .. Len(results) : results'[k] = results[k]
      /\ results'[n] = x
  OBVIOUS
<1>2. /\ \A k \in 1 .. n : k \in 1 .. Len(results) \/ k = n
      /\ 1 .. Len(results) \subseteq 1 .. n
      /\ n \in 1 .. n /\ n \notin 1 .. Len(results)
  BY <1>1
<1>3. ASSUME NEW k
      PROVE  k \in Answered' <=> k \in Answered \/ (k = n /\ x.call # 0)
  BY <1>1, <1>2, Zenon DEF Answered
<1>4. Answered \subseteq 1 .. Len(results)
  BY <1>1 DEF Answered
<1>5. Answered' = IF x.call = 0 THEN Answered ELSE Answered \union {n}
  BY <1>3
<1> QED
  BY <1>1, <1>4, <1>5

LEMMA CallsTyped ==
    results \in Seq(BridgeResult) => \A j \in Answered : results[j].call \in Nat
<1> SUFFICES ASSUME results \in Seq(BridgeResult), NEW j \in Answered
             PROVE  results[j].call \in Nat
  OBVIOUS
<1>1. j \in 1 .. Len(results)
  BY DEF Answered
<1>2. results[j] \in BridgeResult
  BY <1>1
<1> QED
  BY <1>2 DEF BridgeResult

\* The three promises by name: SMT is given one of them at a time.
LEMMA InOrderByName ==
    AnswersInOrder <=>
        /\ \A k \in Answered : results[k].call <= k
        /\ ~torn => \A k \in Answered : k - results[k].call <= surplus
        /\ ~torn => \A j, k \in Answered : j < k => results[j].call <= results[k].call
BY Zenon DEF AnswersInOrder

\* A result that is no answer, or one in its turn, leaves the answers in order.
LEMMA OrderKept ==
    ASSUME results \in Seq(BridgeResult), NEW x \in BridgeResult, results' = Append(results, x),
           NEW n \in Nat, n = Len(results) + 1,
           AnswersInOrder, UNCHANGED <<torn, surplus>>,
           x.call # 0 =>
              /\ x.call <= n
              /\ ~torn => n - x.call <= surplus /\ \A j \in Answered : results[j].call <= x.call
    PROVE  AnswersInOrder'
<1>1. /\ \A k \in Answered : k \in 1 .. Len(results) /\ results'[k] = results[k]
      /\ results'[n] = x
      /\ Answered' = IF x.call = 0 THEN Answered ELSE Answered \union {n}
  BY ResultAppended
<1>2. \A k \in Answered : k < n
  <2>1. Len(results) \in Nat
    OBVIOUS
  <2> QED
    BY <1>1, <2>1
<1>3. \A k \in Answered' : k \in Answered \/ (k = n /\ x.call # 0)
  BY <1>1
<1>4. \A k \in Answered' : results'[k].call <= k
  BY <1>1, <1>3, InOrderByName
<1>5. ~torn' => \A k \in Answered' : k - results'[k].call <= surplus'
  BY <1>1, <1>3, InOrderByName
<1>6. ~torn' => \A j, k \in Answered' : j < k => results'[j].call <= results'[k].call
  <2> SUFFICES ASSUME ~torn, NEW j \in Answered', NEW k \in Answered', j < k
               PROVE  results'[j].call <= results'[k].call
    OBVIOUS
  <2>1. j \in Answered
    BY <1>1, <1>2, <1>3
  <2>2. CASE k \in Answered
    BY <2>1, <2>2, <1>1, InOrderByName
  <2>3. CASE k = n /\ x.call # 0
    BY <2>1, <2>3, <1>1
  <2> QED
    BY <2>2, <2>3, <1>3
<1> QED
  BY <1>4, <1>5, <1>6, Zenon DEF AnswersInOrder

LEMMA FailedTyped ==
    ASSUME NEW reason \in Failures
    PROVE  Failed(reason) \in BridgeResult /\ Failed(reason).call = 0
BY DEF Failed, BridgeResult

\* The pipes as numbers.
LEMMA PipesCounted ==
    PipesTyped =>
        /\ Len(lines) \in Nat /\ Len(requests) \in Nat /\ Pending \in Nat
        /\ InBuffer \in {0, 1}
        /\ \A i \in 1 .. Len(lines) : lines[i] \in BridgeResult
        /\ \A i \in 1 .. Len(requests) : requests[i] \in BridgeRequest
        /\ \A p \in 1 .. Pending : At(p) \in Nat
<1> SUFFICES ASSUME PipesTyped
             PROVE  /\ Len(lines) \in Nat /\ Len(requests) \in Nat /\ Pending \in Nat
                    /\ InBuffer \in {0, 1}
                    /\ \A i \in 1 .. Len(lines) : lines[i] \in BridgeResult
                    /\ \A i \in 1 .. Len(requests) : requests[i] \in BridgeRequest
                    /\ \A p \in 1 .. Pending : At(p) \in Nat
  OBVIOUS
<1>1. /\ Len(lines) \in Nat /\ Len(requests) \in Nat
      /\ \A i \in 1 .. Len(lines) : lines[i] \in BridgeResult
      /\ \A i \in 1 .. Len(requests) : requests[i] \in BridgeRequest
  BY DEF PipesTyped
<1>2. ASSUME NEW p \in 1 .. Pending PROVE At(p) \in Nat
  <2>1. CASE p <= Len(lines)
    BY <2>1, <1>1 DEF At, Pending, BridgeResult
  <2>2. CASE ~(p <= Len(lines))
    <3>1. p - Len(lines) \in 1 .. Len(requests)
      BY <2>2, <1>1 DEF Pending
    <3> QED
      BY <2>2, <3>1, <1>1 DEF At, BridgeRequest
  <2> QED
    BY <2>1, <2>2
<1> QED
  BY <1>1, <1>2 DEF Pending, InBuffer

LEMMA PipesCountedAfter ==
    PipesTyped' =>
       (/\ Len(lines) \in Nat /\ Len(requests) \in Nat /\ Pending \in Nat
        /\ InBuffer \in {0, 1}
        /\ \A i \in 1 .. Len(lines) : lines[i] \in BridgeResult
        /\ \A i \in 1 .. Len(requests) : requests[i] \in BridgeRequest
        /\ \A p \in 1 .. Pending : At(p) \in Nat)'
BY PipesCounted, PTL

\* A step after which every line under way is one that was, further back by as many
\* places as readers went.
Moves(h) ==
    /\ h \in [1 .. Pending' -> 1 .. Pending]
    /\ \A p \in 1 .. Pending' : At(p)' = At(h[p]) /\ h[p] >= p + InBuffer - InBuffer'
    /\ \A p, q \in 1 .. Pending' : p < q => h[p] < h[q]
    /\ alive' => alive /\ Pending' <= Pending - (InBuffer - InBuffer')
    /\ waiting' => waiting

LEMMA MovesKeeps ==
    ASSUME BridgeInv, NEW h, Moves(h), UNCHANGED <<calls, torn, surplus>>,
           PipesTyped', \A line \in buffered' : line.call <= calls,
           ~torn => \A j \in Answered' : \A p \in 1 .. Pending' : results'[j].call <= At(p)'
    PROVE  NeverEarly' /\ PipeInStep'
<1>1. /\ Pending \in Nat /\ Pending' \in Nat /\ InBuffer \in {0, 1} /\ InBuffer' \in {0, 1}
      /\ \A p \in 1 .. Pending : At(p) \in Nat
      /\ \A p \in 1 .. Pending' : At(p)' \in Nat
      /\ calls \in Nat /\ surplus \in Nat
  <2>1. calls \in Nat /\ surplus \in Nat
    BY BridgeAssumption DEF BridgeInv, BridgeTypeOK
  <2>2. PipesTyped
    BY DEF BridgeInv
  <2> QED
    BY <2>1, <2>2, PipesCounted, PipesCountedAfter
<1>2. NeverEarly'
  BY <1>1 DEF Moves, BridgeInv, NeverEarly
<1>3. ASSUME ~torn
      PROVE  /\ alive' => Pending' <= surplus' + InBuffer'
             /\ alive' \/ waiting' =>
                   \A p \in 1 .. Pending' : calls' + p <= At(p)' + surplus' + InBuffer'
             /\ \A p, q \in 1 .. Pending' : p < q => At(p)' <= At(q)'
  <2>1. /\ alive => Pending <= surplus + InBuffer
        /\ alive \/ waiting =>
              \A p \in 1 .. Pending : calls + p <= At(p) + surplus + InBuffer
        /\ \A p, q \in 1 .. Pending : p < q => At(p) <= At(q)
    BY <1>3 DEF BridgeInv, PipeInStep
  <2>2. alive' => Pending' <= surplus' + InBuffer'
    BY <1>1, <2>1 DEF Moves
  <2>3. ASSUME alive' \/ waiting', NEW p \in 1 .. Pending'
        PROVE  calls' + p <= At(p)' + surplus' + InBuffer'
    <3>1. h[p] \in 1 .. Pending /\ At(p)' = At(h[p]) /\ h[p] >= p + InBuffer - InBuffer'
      BY DEF Moves
    <3>2. calls + h[p] <= At(h[p]) + surplus + InBuffer /\ At(h[p]) \in Nat
      BY <1>1, <2>1, <2>3, <3>1 DEF Moves
    <3> QED
      BY <1>1, <3>1, <3>2
  <2>4. \A p, q \in 1 .. Pending' : p < q => At(p)' <= At(q)'
    BY <2>1 DEF Moves
  <2> QED
    BY <2>2, <2>3, <2>4
<1> QED
  BY <1>2, <1>3 DEF PipeInStep

\* The oldest line leaves the pipe for the buffer.
LEMMA LineTaken ==
    ASSUME BridgeInv, Consumed, UNCHANGED <<requests, calls>>
    PROVE  /\ Head(lines) \in BridgeResult /\ Head(lines).call = At(1) /\ 1 \in 1 .. Pending
           /\ lines' \in Seq(BridgeResult) /\ Pending' = Pending - 1 /\ Pending' \in Nat
           /\ \A p \in 1 .. Pending' : p + 1 \in 1 .. Pending /\ At(p)' = At(p + 1)
           /\ buffered' \subseteq BridgeResult /\ \A line \in buffered' : line.call <= calls
<1>1. /\ lines # <<>> /\ lines' = Tail(lines) /\ buffered' = buffered \union {Head(lines)}
      /\ requests' = requests
  BY DEF Consumed
<1>2. /\ lines \in Seq(BridgeResult) /\ requests \in Seq(BridgeRequest)
      /\ Len(lines) \in Nat /\ Len(requests) \in Nat /\ Pending \in Nat
  BY PipesCounted DEF BridgeInv, PipesTyped
<1>3. /\ Head(lines) \in BridgeResult /\ Head(lines) = lines[1]
      /\ lines' \in Seq(BridgeResult) /\ Len(lines') = Len(lines) - 1 /\ Len(lines) > 0
      /\ \A i \in 1 .. Len(lines') : lines'[i] = lines[i + 1]
  <2> HIDE DEF BridgeResult
  <2> QED
    BY <1>1, <1>2
<1>4. Pending' = Pending - 1 /\ Pending' \in Nat /\ 1 \in 1 .. Pending
  BY <1>1, <1>2, <1>3 DEF Pending
<1>5. Head(lines).call = At(1)
  BY <1>2, <1>3 DEF At
<1>6. ASSUME NEW p \in 1 .. Pending' PROVE p + 1 \in 1 .. Pending /\ At(p)' = At(p + 1)
  <2>1. p + 1 \in 1 .. Pending /\ p \in Nat
    BY <1>2, <1>4
  <2>2. CASE p <= Len(lines')
    <3>1. p + 1 <= Len(lines) /\ p \in 1 .. Len(lines')
      BY <2>1, <2>2, <1>2, <1>3
    <3>2. lines'[p] = lines[p + 1]
      BY <3>1, <1>3, Zenon
    <3> QED
      BY <2>1, <2>2, <3>1, <3>2 DEF At
  <2>3. CASE ~(p <= Len(lines'))
    <3>1. ~(p + 1 <= Len(lines)) /\ p - Len(lines') = p + 1 - Len(lines)
      BY <2>1, <2>3, <1>2, <1>3
    <3> QED
      BY <1>1, <2>1, <2>3, <3>1 DEF At
  <2> QED
    BY <2>2, <2>3
<1>7. buffered' \subseteq BridgeResult /\ \A line \in buffered' : line.call <= calls
  BY <1>1, <1>3, <1>4, <1>5 DEF BridgeInv, PipesTyped, NeverEarly
<1> QED
  BY <1>3, <1>4, <1>5, <1>6, <1>7

\* The types after a read that ends.
LEMMA ReadTyped ==
    ASSUME BridgeInv, NEW r \in readers, NEW x \in BridgeResult, Reads(r, x),
           UNCHANGED <<processVars, requests, calls, torn, surplus>>,
           lines' \in Seq(BridgeResult), buffered' \subseteq BridgeResult
    PROVE  BridgeTypeOK' /\ PipesTyped' /\ ReaderAlone'
<1>1. /\ UNCHANGED <<alive, bridgeLogical, bridgeVehicle, requests, calls, torn, surplus>>
      /\ readers' = readers \ {r}
  BY DEF Reads, processVars
<1>2. CASE waiting /\ r = calls
  <2>1. waiting' = FALSE /\ results' = Append(results, x)
    BY <1>2 DEF Reads, Return
  <2>2. results \in Seq(BridgeResult) /\ Len(results) = calls - 1 /\ calls \in Nat
    BY <1>2, BridgeAssumption DEF BridgeInv, PipesTyped, BridgeTypeOK
  <2>3. results' \in Seq(BridgeResult) /\ Len(results') = calls
    <3>1. calls = Len(results) + 1
      BY <2>2
    <3> QED
      BY <2>1, <2>2, <3>1, ResultAppended
  <2>4. BridgeTypeOK' /\ ReaderAlone'
    BY <1>1, <2>1, <2>3 DEF BridgeInv, BridgeTypeOK, ReaderAlone
  <2>5. PipesTyped'
    BY <1>1, <2>1, <2>3 DEF BridgeInv, PipesTyped
  <2> QED
    BY <2>4, <2>5
<1>3. CASE ~(waiting /\ r = calls)
  <2>1. UNCHANGED <<waiting, results>>
    BY <1>3 DEF Reads
  <2> QED
    BY <1>1, <1>3, <2>1 DEF BridgeInv, BridgeTypeOK, PipesTyped, ReaderAlone
<1> QED
  BY <1>2, <1>3

\* In a buffer that two readers were in, an answer may be anything but early.
LEMMA TornReadKeeps ==
    ASSUME BridgeInv, torn, NEW r \in readers, NEW x \in BridgeResult, Reads(r, x),
           UNCHANGED <<processVars, requests, calls, torn, surplus>>, x.call <= calls,
           Consumed \/ UNCHANGED <<lines, buffered>>
    PROVE  BridgeInv'
<1>1. /\ lines' \in Seq(BridgeResult) /\ buffered' \subseteq BridgeResult
      /\ \A line \in buffered' : line.call <= calls
      /\ \A p \in 1 .. Pending' : At(p)' <= calls
  <2>1. CASE Consumed
    BY <2>1, LineTaken DEF BridgeInv, NeverEarly
  <2>2. CASE UNCHANGED <<lines, buffered>>
    <3>1. Pending' = Pending /\ \A p : At(p)' = At(p)
      BY <2>2 DEF Pending, At
    <3> QED
      BY <2>2, <3>1 DEF BridgeInv, NeverEarly, PipesTyped
  <2> QED
    BY <2>1, <2>2
<1>2. BridgeTypeOK' /\ PipesTyped' /\ ReaderAlone'
  BY <1>1, ReadTyped
<1>3. NeverEarly' /\ PipeInStep'
  BY <1>1 DEF NeverEarly, PipeInStep
<1>4. AnswersInOrder'
  <2>1. CASE waiting /\ r = calls
    <3>1. results' = Append(results, x)
      BY <2>1 DEF Reads, Return
    <3>2. results \in Seq(BridgeResult) /\ Len(results) = calls - 1 /\ calls \in Nat
      BY <2>1, BridgeAssumption DEF BridgeInv, PipesTyped, BridgeTypeOK
    <3>3. AnswersInOrder /\ calls = Len(results) + 1
      BY <3>2 DEF BridgeInv
    <3> QED
      BY <3>1, <3>2, <3>3, OrderKept
  <2>2. CASE ~(waiting /\ r = calls)
    BY <2>2 DEF BridgeInv, Reads, AnswersInOrder, Answered
  <2> QED
    BY <2>1, <2>2
<1> QED
  BY <1>2, <1>3, <1>4 DEF BridgeInv

\* A reader alone in the buffer takes the oldest line, or the end of the pipe.
LEMMA SoleReadKeeps ==
    ASSUME BridgeInv, ~torn, NEW r \in readers, NEW x \in BridgeResult, Reads(r, x),
           UNCHANGED <<processVars, requests, calls, torn, surplus>>,
           \/ Consumed /\ x = Head(lines)
           \/ ~alive /\ lines = <<>> /\ x.call = 0 /\ UNCHANGED <<lines, buffered>>
    PROVE  BridgeInv'
<1>1. /\ Pending \in Nat /\ calls \in Nat /\ surplus \in Nat
      /\ \A p \in 1 .. Pending : At(p) \in Nat
      /\ results \in Seq(BridgeResult) /\ \A j \in Answered : results[j].call \in Nat
  BY PipesCounted, CallsTyped, BridgeAssumption DEF BridgeInv, BridgeTypeOK, PipesTyped
<1>2. InBuffer = 1 /\ InBuffer' = 0
  BY DEF BridgeInv, ReaderAlone, Reads, InBuffer
<1>3. /\ waiting => \A p \in 1 .. Pending : calls + p <= At(p) + surplus + 1
      /\ \A p, q \in 1 .. Pending : p < q => At(p) <= At(q)
      /\ \A j \in Answered : \A p \in 1 .. Pending : results[j].call <= At(p)
      /\ \A p \in 1 .. Pending : At(p) <= calls
      /\ alive => Pending <= surplus + 1
  BY <1>2 DEF BridgeInv, PipeInStep, NeverEarly
<1>4. /\ lines' \in Seq(BridgeResult) /\ buffered' \subseteq BridgeResult
      /\ \A line \in buffered' : line.call <= calls
      /\ \A p \in 1 .. Pending' : p + 1 \in 1 .. Pending /\ At(p)' = At(p + 1)
      /\ Pending' \in Nat /\ (alive' => alive /\ Pending' <= Pending - 1)
      /\ x.call # 0 => 1 \in 1 .. Pending /\ x.call = At(1)
      /\ waiting' => waiting
  <2>1. alive' = alive /\ requests' = requests /\ (waiting' => waiting)
    BY DEF processVars, Reads, Return
  <2>2. CASE Consumed /\ x = Head(lines)
    BY <1>1, <2>1, <2>2, LineTaken
  <2>3. CASE ~alive /\ lines = <<>> /\ x.call = 0 /\ UNCHANGED <<lines, buffered>>
    <3>1. Pending' = 0
      BY <2>1, <2>3 DEF BridgeInv, PipesTyped, Pending
    <3> QED
      BY <2>1, <2>3, <3>1 DEF BridgeInv, PipesTyped, NeverEarly
  <2> QED
    BY <2>2, <2>3
<1>5. BridgeTypeOK' /\ PipesTyped' /\ ReaderAlone'
  BY <1>4, ReadTyped
<1>6. /\ AnswersInOrder'
      /\ \A j \in Answered' : \A p \in 1 .. Pending' : results'[j].call <= At(p)'
  <2>1. CASE waiting /\ r = calls
    <3>1. results' = Append(results, x)
      BY <2>1 DEF Reads, Return
    <3>2. Len(results) = calls - 1 /\ calls = Len(results) + 1 /\ AnswersInOrder
      BY <1>1, <2>1 DEF BridgeInv, BridgeTypeOK
    <3>3. /\ x.call # 0 => /\ x.call <= calls
                           /\ calls - x.call <= surplus
                           /\ \A j \in Answered : results[j].call <= x.call
          /\ UNCHANGED <<torn, surplus>>
      BY <1>1, <1>3, <1>4, <2>1
    <3>4. AnswersInOrder'
      BY <1>1, <3>1, <3>2, <3>3, OrderKept
    <3>5. /\ \A k \in Answered : k \in 1 .. Len(results) /\ results'[k] = results[k]
          /\ results'[calls] = x
          /\ Answered' = IF x.call = 0 THEN Answered ELSE Answered \union {calls}
      BY <1>1, <3>1, <3>2, ResultAppended
    <3>6. ASSUME NEW j \in Answered', NEW p \in 1 .. Pending'
          PROVE  results'[j].call <= At(p)'
      <4>1. p + 1 \in 1 .. Pending /\ At(p)' = At(p + 1) /\ 1 < p + 1
        BY <1>1, <1>4
      <4>2. CASE j \in Answered
        BY <1>3, <3>5, <4>1, <4>2
      <4>3. CASE j = calls /\ x.call # 0
        BY <1>3, <1>4, <3>5, <4>1, <4>3
      <4> QED
        BY <3>5, <4>2, <4>3
    <3> QED
      BY <3>4, <3>6
  <2>2. CASE ~(waiting /\ r = calls)
    <3>1. results' = results /\ Answered' = Answered
      BY <2>2 DEF Reads, Answered
    <3>2. AnswersInOrder'
      BY <3>1 DEF BridgeInv, AnswersInOrder
    <3> QED
      BY <1>3, <1>4, <3>1, <3>2
  <2> QED
    BY <2>1, <2>2
<1>7. Moves([p \in 1 .. Pending' |-> p + 1])
  BY <1>1, <1>2, <1>4 DEF Moves
<1>8. NeverEarly' /\ PipeInStep'
  BY <1>4, <1>5, <1>6, <1>7, MovesKeeps
<1> QED
  BY <1>5, <1>6, <1>8 DEF BridgeInv

LEMMA ReadKeeps ==
    ASSUME BridgeInv, NEW r \in readers, ReadAnswer(r) \/ ReadTorn(r) \/ ReadEndOfFile(r)
    PROVE  BridgeInv'
<1>1. /\ calls \in Nat /\ 0 <= calls
      /\ Failed("read failed") \in BridgeResult /\ Failed("read failed").call = 0
      /\ Failed("malformed") \in BridgeResult /\ Failed("malformed").call = 0
  <2>1. calls \in Nat
    BY BridgeAssumption DEF BridgeInv, BridgeTypeOK
  <2>2. 0 <= calls
    BY <2>1
  <2>3. "read failed" \in Failures /\ "malformed" \in Failures
    BY DEF Failures
  <2> QED
    BY <2>1, <2>2, <2>3, FailedTyped
<1>2. CASE ReadAnswer(r)
  <2>1. /\ Consumed /\ Reads(r, Head(lines))
        /\ UNCHANGED <<processVars, requests, calls, torn, surplus>>
    BY <1>2 DEF ReadAnswer
  <2>2. Head(lines) \in BridgeResult /\ Head(lines).call <= calls
    BY <2>1, LineTaken DEF BridgeInv, NeverEarly
  <2> QED
    BY <2>1, <2>2, TornReadKeeps, SoleReadKeeps
<1>3. CASE ReadTorn(r)
  <2>1. /\ torn /\ (Consumed \/ UNCHANGED <<lines, buffered>>)
        /\ UNCHANGED <<processVars, requests, calls, torn, surplus>>
    BY <1>3 DEF ReadTorn
  <2>2. PICK got \in buffered \union {Failed("malformed")} : Reads(r, got)
    BY <1>3 DEF ReadTorn
  <2>3. got \in BridgeResult /\ got.call <= calls
    <3>1. CASE got \in buffered
      BY <3>1 DEF BridgeInv, PipesTyped, NeverEarly
    <3>2. CASE got = Failed("malformed")
      BY <3>2, <1>1
    <3> QED
      BY <3>1, <3>2
  <2> QED
    BY <2>1, <2>2, <2>3, TornReadKeeps
<1>4. CASE ReadEndOfFile(r)
  <2>1. /\ ~alive /\ lines = <<>> /\ Reads(r, Failed("read failed"))
        /\ UNCHANGED <<processVars, requests, calls, torn, surplus, lines, buffered>>
    BY <1>4 DEF ReadEndOfFile
  <2>2. Failed("read failed").call <= calls
    BY <1>1
  <2> QED
    BY <1>1, <2>1, <2>2, TornReadKeeps, SoleReadKeeps
<1> QED
  BY <1>2, <1>3, <1>4

LEMMA LoseLineKeeps == BridgeInv /\ LoseLine => BridgeInv'
<1> SUFFICES ASSUME BridgeInv, LoseLine PROVE BridgeInv'
  OBVIOUS
<1>1. /\ torn /\ Consumed
      /\ UNCHANGED <<alive, bridgeLogical, bridgeVehicle, requests, calls, waiting, readers, torn,
                     surplus, results>>
  BY DEF LoseLine, processVars
<1>2. /\ lines' \in Seq(BridgeResult) /\ buffered' \subseteq BridgeResult
      /\ \A line \in buffered' : line.call <= calls
      /\ \A p \in 1 .. Pending' : At(p)' <= calls
  BY <1>1, LineTaken DEF BridgeInv, NeverEarly
<1>3. BridgeTypeOK' /\ PipesTyped' /\ ReaderAlone'
  BY <1>1, <1>2 DEF BridgeInv, BridgeTypeOK, PipesTyped, ReaderAlone
<1>4. NeverEarly' /\ PipeInStep' /\ AnswersInOrder'
  BY <1>1, <1>2 DEF BridgeInv, NeverEarly, PipeInStep, AnswersInOrder, Answered
<1> QED
  BY <1>3, <1>4 DEF BridgeInv

LEMMA AttemptTimeoutKeeps == BridgeInv /\ AttemptTimeout => BridgeInv'
<1> SUFFICES ASSUME BridgeInv, AttemptTimeout PROVE BridgeInv'
  OBVIOUS
<1> DEFINE x == Failed("deadline exceeded")
<1>1. x \in BridgeResult /\ x.call = 0
  BY FailedTyped DEF Failures
<1>2. /\ waiting /\ waiting' = FALSE /\ results' = Append(results, x)
      /\ UNCHANGED <<alive, bridgeLogical, bridgeVehicle, requests, lines, calls, readers, torn,
                     buffered, surplus>>
  BY DEF AttemptTimeout, Return, processVars
<1>3. /\ results \in Seq(BridgeResult) /\ calls \in Nat /\ calls = Len(results) + 1
      /\ AnswersInOrder
  <2>1. calls \in Nat /\ Len(results) = calls - 1
    <3>1. waiting
      BY <1>2
    <3> QED
      BY <3>1, BridgeAssumption DEF BridgeInv, BridgeTypeOK
  <2>2. calls = Len(results) + 1
    BY <2>1
  <2>3. results \in Seq(BridgeResult) /\ AnswersInOrder
    BY DEF BridgeInv, PipesTyped
  <2> QED
    BY <2>1, <2>2, <2>3
<1> HIDE DEF x
<1>4. /\ results' \in Seq(BridgeResult) /\ Len(results') = calls
      /\ \A k \in Answered : results'[k] = results[k]
      /\ Answered' = Answered
  BY <1>1, <1>2, <1>3, ResultAppended
<1>5. AnswersInOrder'
  BY <1>1, <1>2, <1>3, OrderKept
<1>6. BridgeTypeOK' /\ PipesTyped' /\ ReaderAlone'
  BY <1>2, <1>4 DEF BridgeInv, BridgeTypeOK, PipesTyped, ReaderAlone
<1>7. Pending' = Pending /\ InBuffer' = InBuffer /\ \A p : At(p)' = At(p)
  BY <1>2 DEF Pending, InBuffer, At
<1>8. NeverEarly'
  BY <1>2, <1>7 DEF BridgeInv, NeverEarly
<1>9. PipeInStep'
  BY <1>2, <1>4, <1>7 DEF BridgeInv, PipeInStep
<1> QED
  BY <1>5, <1>6, <1>8, <1>9 DEF BridgeInv

\* A request of m lines goes to the end of the pipe.
LEMMA Joined ==
    ASSUME NEW S, NEW s \in Seq(S), NEW t \in Seq(S)
    PROVE  /\ s \o t \in Seq(S) /\ Len(s \o t) = Len(s) + Len(t)
           /\ \A i \in 1 .. Len(s) : (s \o t)[i] = s[i]
           /\ \A i \in 1 .. Len(t) : (s \o t)[Len(s) + i] = t[i]
OBVIOUS

LEMMA RequestKeeps ==
    ASSUME BridgeInv, ~waiting, alive, NEW c \in BridgeCommands, NEW cut \in Cuts(c),
           Request(cut), calls < MaxCalls, calls' = calls + 1,
           UNCHANGED <<processVars, lines, buffered>>
    PROVE  BridgeInv'
<1> DEFINE m == Len(cut)
           added == Lines(calls + 1, cut)
<1>1. /\ calls \in Nat /\ calls + 1 \in 0 .. MaxCalls /\ surplus \in Nat
      /\ Len(results) = calls
  BY BridgeAssumption DEF BridgeInv, BridgeTypeOK
<1>2. m \in Nat \ {0} /\ added \in Seq(BridgeRequest) /\ Len(added) = m
      /\ \A i \in 1 .. m : added[i].call = calls + 1
  <2>1. PICK k \in 0 .. MaxSurplus - surplus : cut \in [1 .. k + 1 -> {c, Malformed, Blank}]
    BY DEF Cuts
  <2>2. k + 1 \in Nat \ {0} /\ DOMAIN cut = 1 .. k + 1
    BY <2>1, <1>1, BridgeAssumption
  <2>3. cut \in Seq({c, Malformed, Blank}) /\ m = k + 1
    BY <2>1, <2>2
  <2>4. \A i \in 1 .. k + 1 : cut[i] \in BridgeCommands \union {Malformed, Blank}
    BY <2>1
  <2>5. added = [i \in 1 .. k + 1 |-> [call |-> calls + 1, command |-> cut[i]]]
    BY <2>2 DEF Lines
  <2>6. added \in [1 .. k + 1 -> BridgeRequest]
    BY <2>4, <2>5, <1>1 DEF BridgeRequest
  <2>7. \A i \in 1 .. k + 1 : added[i].call = calls + 1
    BY <2>5
  <2> HIDE DEF added, m
  <2>8. added \in Seq(BridgeRequest) /\ Len(added) = k + 1
    BY <2>2, <2>6
  <2> QED
    BY <2>2, <2>3, <2>7, <2>8
<1>3. /\ requests' = requests \o added /\ surplus' = surplus + m - 1
      /\ readers' = readers \union {calls + 1} /\ torn' = (torn \/ readers # {})
      /\ waiting' = TRUE /\ UNCHANGED results
      /\ UNCHANGED <<alive, bridgeLogical, bridgeVehicle, lines, buffered>>
  BY DEF Request, processVars
<1> HIDE DEF m, added
<1>4. /\ Len(lines) \in Nat /\ Len(requests) \in Nat /\ Pending \in Nat
      /\ requests \in Seq(BridgeRequest)
      /\ \A p \in 1 .. Pending : At(p) \in Nat
  BY PipesCounted DEF BridgeInv, PipesTyped
<1>5. /\ requests' \in Seq(BridgeRequest) /\ Len(requests') = Len(requests) + m
      /\ \A i \in 1 .. Len(requests) : requests'[i] = requests[i]
      /\ \A i \in 1 .. m : requests'[Len(requests) + i] = added[i]
  <2>0. requests \in Seq(BridgeRequest) /\ added \in Seq(BridgeRequest)
    BY <1>2, <1>4
  <2>1. /\ requests \o added \in Seq(BridgeRequest)
        /\ Len(requests \o added) = Len(requests) + Len(added)
        /\ \A i \in 1 .. Len(requests) : (requests \o added)[i] = requests[i]
        /\ \A i \in 1 .. Len(added) : (requests \o added)[Len(requests) + i] = added[i]
    BY <2>0, Joined
  <2> QED
    BY <1>2, <1>3, <2>1
<1>6. /\ Pending' = Pending + m
      /\ \A p \in 1 .. Pending : At(p)' = At(p)
      /\ \A p \in 1 .. Pending' : p \in 1 .. Pending \/ (p > Pending /\ At(p)' = calls + 1)
  <2>1. Pending' = Pending + m
    BY <1>2, <1>3, <1>4, <1>5 DEF Pending
  <2>2. ASSUME NEW p \in 1 .. Pending PROVE At(p)' = At(p)
    <3>1. CASE p <= Len(lines)
      BY <3>1, <1>3 DEF At
    <3>2. CASE ~(p <= Len(lines))
      <4>1. p - Len(lines) \in 1 .. Len(requests)
        BY <3>2, <1>4 DEF Pending
      <4> QED
        BY <3>2, <4>1, <1>3, <1>5 DEF At
    <3> QED
      BY <3>1, <3>2
  <2>3. ASSUME NEW p \in 1 .. Pending', p \notin 1 .. Pending
        PROVE  p > Pending /\ At(p)' = calls + 1
    <3>1. /\ p > Pending /\ ~(p <= Len(lines)) /\ p - Pending \in 1 .. m
          /\ p - Len(lines) = Len(requests) + (p - Pending)
      BY <2>1, <2>3, <1>2, <1>4 DEF Pending
    <3>2. requests'[Len(requests) + (p - Pending)] = added[p - Pending]
      BY <3>1, <1>5
    <3>3. requests'[p - Len(lines)].call = calls + 1
      BY <3>1, <3>2, <1>2
    <3> QED
      BY <3>1, <3>3, <1>3 DEF At
  <2> QED
    BY <2>1, <2>2, <2>3
<1>7. BridgeTypeOK'
  BY <1>1, <1>2, <1>3 DEF BridgeInv, BridgeTypeOK
<1>8. PipesTyped'
  BY <1>1, <1>3, <1>5 DEF BridgeInv, PipesTyped
<1>9. ReaderAlone'
  BY <1>3 DEF BridgeInv, ReaderAlone
<1>10. NeverEarly'
  <2>1. \A line \in buffered : line.call <= calls /\ line.call \in Nat
    BY DEF BridgeInv, NeverEarly, PipesTyped, BridgeResult
  <2> QED
    BY <1>1, <1>3, <1>4, <1>6, <2>1 DEF BridgeInv, NeverEarly
<1>11. PipeInStep'
  <2> SUFFICES ASSUME ~torn, readers = {}
               PROVE  /\ Pending' <= surplus' + InBuffer'
                      /\ \A p \in 1 .. Pending' : calls' + p <= At(p)' + surplus' + InBuffer'
                      /\ \A p, q \in 1 .. Pending' : p < q => At(p)' <= At(q)'
                      /\ \A j \in Answered' : \A p \in 1 .. Pending' : results'[j].call <= At(p)'
    BY <1>3 DEF PipeInStep
  <2>1. InBuffer = 0 /\ InBuffer' = 1
    BY <1>3 DEF InBuffer
  <2>2. /\ Pending <= surplus
        /\ \A p \in 1 .. Pending : calls + p <= At(p) + surplus
        /\ \A p, q \in 1 .. Pending : p < q => At(p) <= At(q)
        /\ \A j \in Answered : \A p \in 1 .. Pending : results[j].call <= At(p)
        /\ \A p \in 1 .. Pending : At(p) <= calls
    BY <2>1, <1>1, <1>4 DEF BridgeInv, PipeInStep, NeverEarly
  <2>3. Pending' <= surplus' + InBuffer'
    BY <2>1, <2>2, <1>1, <1>2, <1>3, <1>4, <1>6
  <2>4. ASSUME NEW p \in 1 .. Pending'
        PROVE  calls' + p <= At(p)' + surplus' + InBuffer'
    <3>1. CASE p \in 1 .. Pending
      BY <3>1, <2>1, <2>2, <1>1, <1>2, <1>3, <1>4, <1>6
    <3>2. CASE p > Pending /\ At(p)' = calls + 1
      BY <3>2, <2>1, <2>2, <2>3, <1>1, <1>2, <1>3, <1>4, <1>6
    <3> QED
      BY <3>1, <3>2, <1>6
  <2>5. ASSUME NEW p \in 1 .. Pending', NEW q \in 1 .. Pending', p < q
        PROVE  At(p)' <= At(q)'
    <3>1. CASE q \in 1 .. Pending
      <4>1. p \in 1 .. Pending
        BY <3>1, <2>5, <1>4, <1>6
      <4> QED
        BY <4>1, <3>1, <2>2, <2>5, <1>6
    <3>2. CASE q > Pending /\ At(q)' = calls + 1
      BY <3>2, <2>2, <1>1, <1>4, <1>6
    <3> QED
      BY <3>1, <3>2, <1>6
  <2>6. ASSUME NEW j \in Answered', NEW p \in 1 .. Pending'
        PROVE  results'[j].call <= At(p)'
    <3>1. j \in Answered /\ results'[j] = results[j]
      BY <1>3 DEF Answered
    <3>2. results[j].call \in Nat /\ results[j].call <= calls
      <4>1. j \in 1 .. calls
        BY <3>1, <1>1 DEF Answered, BridgeInv, PipesTyped
      <4>2. results[j].call <= j
        BY <3>1, InOrderByName DEF BridgeInv
      <4>3. results[j].call \in Nat
        BY <3>1, CallsTyped DEF BridgeInv, PipesTyped
      <4> QED
        BY <4>1, <4>2, <4>3, <1>1
    <3>3. CASE p \in 1 .. Pending
      BY <3>1, <3>3, <2>2, <1>6
    <3>4. CASE p > Pending /\ At(p)' = calls + 1
      BY <3>1, <3>2, <3>4, <1>1
    <3> QED
      BY <3>3, <3>4, <1>6
  <2> QED
    BY <2>3, <2>4, <2>5, <2>6
<1>12. AnswersInOrder'
  <2>1. \A k \in Answered : results[k].call \in Nat /\ k \in Nat
    BY CallsTyped DEF BridgeInv, PipesTyped, Answered
  <2>2. Answered' = Answered /\ results' = results /\ surplus <= surplus' /\ surplus' \in Nat
    BY <1>1, <1>2, <1>3 DEF Answered
  <2>3. /\ \A k \in Answered : results[k].call <= k
        /\ ~torn => \A k \in Answered : k - results[k].call <= surplus
        /\ ~torn => \A j, k \in Answered : j < k => results[j].call <= results[k].call
    BY InOrderByName DEF BridgeInv
  <2>4. ~torn => \A k \in Answered : k - results[k].call <= surplus'
    BY <2>1, <2>2, <2>3, <1>1
  <2> QED
    BY <2>2, <2>3, <2>4, <1>3, Zenon DEF AnswersInOrder
<1> QED
  BY <1>7, <1>8, <1>9, <1>10, <1>11, <1>12 DEF BridgeInv

LEMMA CallKeeps ==
    ASSUME BridgeInv, NEW c \in BridgeCommands, Call(c)
    PROVE  BridgeInv'
<1>1. /\ ~waiting /\ calls < MaxCalls /\ calls' = calls + 1
      /\ UNCHANGED <<processVars, lines, buffered>>
  BY DEF Call
<1>2. CASE alive /\ \E cut \in Cuts(c) : Request(cut)
  BY <1>1, <1>2, RequestKeeps
<1>3. CASE ~alive /\ results' = Append(results, Failed("write failed"))
           /\ UNCHANGED <<requests, readers, torn, surplus, waiting>>
  <2> DEFINE x == Failed("write failed")
  <2>1. x \in BridgeResult /\ x.call = 0
    BY FailedTyped DEF Failures
  <2>2. /\ calls \in Nat /\ calls + 1 \in Nat /\ calls + 1 \in 0 .. MaxCalls
        /\ Len(results) = calls /\ calls + 1 = Len(results) + 1
    <3>1. calls \in Nat /\ Len(results) = calls
      BY <1>1, BridgeAssumption DEF BridgeInv, BridgeTypeOK
    <3> QED
      BY <1>1, <3>1, BridgeAssumption
  <2>3. results \in Seq(BridgeResult) /\ AnswersInOrder
    BY DEF BridgeInv, PipesTyped
  <2>4. results' = Append(results, x) /\ UNCHANGED <<torn, surplus>>
    BY <1>3
  <2> HIDE DEF x
  <2>5. /\ results' \in Seq(BridgeResult) /\ Len(results') = calls + 1
        /\ \A k \in Answered : results'[k] = results[k]
        /\ Answered' = Answered
    BY <2>1, <2>2, <2>3, <2>4, ResultAppended
  <2>6. AnswersInOrder'
    BY <2>1, <2>2, <2>3, <2>4, OrderKept
  <2>7. UNCHANGED <<alive, bridgeLogical, bridgeVehicle, lines, buffered, requests, readers, torn,
                    surplus, waiting>>
    BY <1>1, <1>3 DEF processVars
  <2>8. BridgeTypeOK' /\ ReaderAlone'
    BY <1>1, <2>2, <2>5, <2>7 DEF BridgeInv, BridgeTypeOK, ReaderAlone
  <2>9. PipesTyped'
    BY <1>1, <2>2, <2>5, <2>7 DEF BridgeInv, PipesTyped
  <2>10. /\ Pending' = Pending /\ InBuffer' = InBuffer /\ \A p : At(p)' = At(p)
         /\ Pending \in Nat /\ \A p \in 1 .. Pending : At(p) \in Nat
    BY <2>7, PipesCounted DEF Pending, InBuffer, At, BridgeInv
  <2>11. \A line \in buffered : line.call \in Nat
    BY DEF BridgeInv, PipesTyped, BridgeResult
  <2>12. NeverEarly'
    BY <1>1, <2>2, <2>7, <2>10, <2>11 DEF BridgeInv, NeverEarly
  <2>13. PipeInStep'
    <3>1. ~alive' /\ ~waiting' /\ torn' = torn
      <4>1. ~alive /\ ~waiting /\ alive \in BOOLEAN /\ waiting \in BOOLEAN
        BY <1>1, <1>3 DEF BridgeInv, PipesTyped
      <4> QED
        BY <4>1, <2>7
    <3>2. ~torn =>
             /\ \A p, q \in 1 .. Pending : p < q => At(p) <= At(q)
             /\ \A j \in Answered : \A p \in 1 .. Pending : results[j].call <= At(p)
      BY DEF BridgeInv, PipeInStep
    <3>3. ~torn => \A p, q \in 1 .. Pending' : p < q => At(p)' <= At(q)'
      BY <2>10, <3>2
    <3>4. ~torn =>
             \A j \in Answered' : \A p \in 1 .. Pending' : results'[j].call <= At(p)'
      BY <2>5, <2>10, <3>2
    <3> QED
      BY <3>1, <3>3, <3>4, Zenon DEF PipeInStep
  <2> QED
    BY <2>6, <2>8, <2>9, <2>12, <2>13 DEF BridgeInv
<1> QED
  BY <1>2, <1>3, Zenon DEF Call

\* What the process answers is one of the answers of the adapter.
LEMMA LineTyped ==
    ASSUME NEW c \in CommandType, NEW draw \in Draws, c.target \in Targets
    PROVE  BridgeTypeOK =>
              /\ PhysicalAfter(c, draw) \in AdapterType
              /\ PhysicalAnswer(c, draw) \in Failures \union AdapterAnswers
              /\ LogicalAfter(bridgeLogical[c.target], c) \in LogicalState
<1> SUFFICES ASSUME BridgeTypeOK
             PROVE  /\ PhysicalAfter(c, draw) \in AdapterType
                    /\ PhysicalAnswer(c, draw) \in Failures \union AdapterAnswers
                    /\ LogicalAfter(bridgeLogical[c.target], c) \in LogicalState
  OBVIOUS
<1>1. PhysicalAfter(c, draw) \in AdapterType
  BY AdapterTyped DEF PhysicalAfter, BridgeTypeOK
<1>2. AdapterAnswer(bridgeVehicle, c, draw) \in AdapterAnswers
  BY DEF AdapterAnswer, AdapterAnswers
<1>3. PhysicalAnswer(c, draw) \in Failures \union AdapterAnswers
  BY <1>2 DEF PhysicalAnswer, AdapterAnswers
<1>4. LogicalAfter(bridgeLogical[c.target], c) \in LogicalState
  BY LogicalTyped DEF BridgeTypeOK, IsCommand, CommandType
<1> QED
  BY <1>1, <1>3, <1>4

\* The process takes the oldest request off its input.
LEMMA RequestTaken ==
    ASSUME BridgeInv, alive, requests # <<>>, requests' = Tail(requests),
           UNCHANGED <<alive, clientVars>>
    PROVE  /\ Head(requests) \in BridgeRequest /\ Head(requests) = requests[1]
           /\ requests' \in Seq(BridgeRequest) /\ Len(requests') = Len(requests) - 1
           /\ Len(requests) \in Nat \ {0} /\ Len(lines) \in Nat
           /\ \A i \in 1 .. Len(requests') : requests'[i] = requests[i + 1]
           /\ ReaderAlone' /\ AnswersInOrder' /\ InBuffer' = InBuffer /\ Answered' = Answered
           /\ UNCHANGED <<alive, calls, waiting, readers, torn, buffered, surplus, results>>
<1>1. UNCHANGED <<alive, calls, waiting, readers, torn, buffered, surplus, results>>
  BY DEF clientVars
<1>2. requests \in Seq(BridgeRequest) /\ Len(lines) \in Nat /\ Len(requests) \in Nat
  BY PipesCounted DEF BridgeInv, PipesTyped
<1>3. /\ Head(requests) \in BridgeRequest /\ Head(requests) = requests[1]
      /\ requests' \in Seq(BridgeRequest) /\ Len(requests') = Len(requests) - 1
      /\ Len(requests) > 0
      /\ \A i \in 1 .. Len(requests') : requests'[i] = requests[i + 1]
  <2> HIDE DEF BridgeRequest
  <2> QED
    BY <1>2
<1>4. ReaderAlone' /\ AnswersInOrder' /\ InBuffer' = InBuffer /\ Answered' = Answered
  BY <1>1 DEF BridgeInv, ReaderAlone, AnswersInOrder, InBuffer, Answered
<1> QED
  BY <1>1, <1>2, <1>3, <1>4

\* The answer to a request is at the request's place in the pipe.
LEMMA AnswerKeeps ==
    ASSUME BridgeInv, alive, requests # <<>>, requests' = Tail(requests),
           UNCHANGED <<alive, clientVars>>,
           NEW answer \in Failures \union AdapterAnswers, NEW n \in Nat,
           Answers(Head(requests), answer, n), BridgeTypeOK'
    PROVE  BridgeInv'
<1> DEFINE x == [call |-> Head(requests).call, answer |-> answer, steps |-> n]
<1>1. /\ Head(requests) \in BridgeRequest /\ Head(requests) = requests[1]
      /\ requests' \in Seq(BridgeRequest) /\ Len(requests') = Len(requests) - 1
      /\ Len(requests) \in Nat \ {0} /\ Len(lines) \in Nat
      /\ \A i \in 1 .. Len(requests') : requests'[i] = requests[i + 1]
      /\ ReaderAlone' /\ AnswersInOrder' /\ InBuffer' = InBuffer /\ Answered' = Answered
      /\ UNCHANGED <<alive, calls, waiting, readers, torn, buffered, surplus, results>>
  BY RequestTaken
<1>2. x \in BridgeResult /\ x.call = requests[1].call
  BY <1>1 DEF BridgeRequest, BridgeResult
<1>3. lines' = Append(lines, x) /\ lines \in Seq(BridgeResult)
  BY DEF Answers, BridgeInv, PipesTyped
<1> HIDE DEF x
<1>4. /\ lines' \in Seq(BridgeResult) /\ Len(lines') = Len(lines) + 1
      /\ lines'[Len(lines) + 1] = x /\ \A i \in 1 .. Len(lines) : lines'[i] = lines[i]
  BY <1>2, <1>3
<1>5. PipesTyped'
  BY <1>1, <1>4 DEF BridgeInv, PipesTyped
<1>6. Pending' = Pending /\ Pending \in Nat
  BY <1>1, <1>4 DEF Pending
<1>7. ASSUME NEW p \in 1 .. Pending PROVE At(p)' = At(p)
  <2>1. CASE p <= Len(lines)
    BY <2>1, <1>1, <1>4, <1>6 DEF At
  <2>2. CASE p = Len(lines) + 1
    <3>1. p <= Len(lines') /\ ~(p <= Len(lines)) /\ p - Len(lines) = 1
      BY <2>2, <1>1, <1>4
    <3> QED
      BY <2>2, <3>1, <1>2, <1>4 DEF At
  <2>3. CASE p > Len(lines) + 1
    <3>1. /\ ~(p <= Len(lines')) /\ ~(p <= Len(lines))
          /\ p - Len(lines') \in 1 .. Len(requests')
          /\ p - Len(lines') + 1 = p - Len(lines)
      BY <2>3, <1>1, <1>4, <1>6 DEF Pending
    <3>2. requests'[p - Len(lines')] = requests[p - Len(lines)]
      BY <3>1, <1>1
    <3> QED
      BY <3>1, <3>2 DEF At
  <2> QED
    BY <2>1, <2>2, <2>3, <1>1, <1>6
<1>8. NeverEarly' /\ PipeInStep'
  BY <1>1, <1>6, <1>7 DEF BridgeInv, NeverEarly, PipeInStep
<1> QED
  BY <1>1, <1>5, <1>8 DEF BridgeInv

LEMMA ServeKeeps ==
    ASSUME NEW draw \in Draws
    PROVE  BridgeInv /\ Serve(draw) => BridgeInv'
<1>1. SUFFICES ASSUME BridgeInv, Serve(draw) PROVE BridgeInv'
  OBVIOUS
<1> DEFINE c == Head(requests).command
<1>2. /\ alive /\ requests # <<>> /\ requests' = Tail(requests) /\ c \in BridgeCommands
      /\ UNCHANGED <<alive, clientVars>>
      /\ bridgeLogical' = [bridgeLogical EXCEPT ![c.target] = LogicalAfter(@, c)]
      /\ bridgeVehicle' = PhysicalAfter(c, draw)
      /\ Answers(Head(requests), PhysicalAnswer(c, draw), bridgeVehicle'.steps)
  BY <1>1 DEF Serve
<1>3. c \in CommandType /\ c.target \in Targets /\ BridgeTypeOK
  BY <1>1, <1>2, BridgeAssumption DEF BridgeInv
<1> HIDE DEF c
<1>4. bridgeLogical' \in [Targets -> LogicalState] /\ bridgeVehicle' \in AdapterType
  BY <1>2, <1>3, LineTyped DEF BridgeTypeOK
<1>5. BridgeTypeOK'
  BY <1>2, <1>3, <1>4 DEF BridgeTypeOK, clientVars
<1>6. /\ bridgeVehicle'.steps \in Nat
      /\ PhysicalAnswer(c, draw) \in Failures \union AdapterAnswers
  BY <1>3, <1>4, LineTyped DEF AdapterType
<1> QED
  BY <1>1, <1>2, <1>5, <1>6, AnswerKeeps

LEMMA ServeThrowsKeeps == BridgeInv /\ ServeThrows => BridgeInv'
<1>1. SUFFICES ASSUME BridgeInv, ServeThrows PROVE BridgeInv'
  OBVIOUS
<1>2. /\ alive' = FALSE /\ requests' = <<>>
      /\ UNCHANGED <<bridgeLogical, bridgeVehicle, lines, calls, waiting, readers, torn, buffered,
                     surplus, results>>
  BY <1>1 DEF ServeThrows, clientVars
<1>3. BridgeTypeOK' /\ ReaderAlone' /\ AnswersInOrder'
  BY <1>1, <1>2 DEF BridgeInv, BridgeTypeOK, ReaderAlone, AnswersInOrder, Answered
<1>4. PipesTyped'
  <2>1. <<>> \in Seq(BridgeRequest)
    OBVIOUS
  <2> QED
    BY <1>1, <1>2, <2>1 DEF BridgeInv, PipesTyped
<1>5. /\ Len(lines) \in Nat /\ Len(requests) \in Nat /\ Pending' = Len(lines)
      /\ Pending = Len(lines) + Len(requests)
  BY <1>1, <1>2, PipesCounted DEF BridgeInv, Pending
<1>6. /\ \A p \in 1 .. Pending' : p \in 1 .. Pending /\ At(p)' = At(p)
      /\ InBuffer' = InBuffer /\ Answered' = Answered
  BY <1>2, <1>5 DEF At, InBuffer, Answered
<1>7. NeverEarly'
  BY <1>1, <1>2, <1>6 DEF BridgeInv, NeverEarly
<1>8. PipeInStep'
  <2>1. alive
    BY <1>1 DEF ServeThrows
  <2> QED
    BY <1>1, <1>2, <1>6, <2>1 DEF BridgeInv, PipeInStep
<1> QED
  BY <1>3, <1>4, <1>7, <1>8 DEF BridgeInv

\* An empty line goes, and those behind it move up.
LEMMA PassOverKeeps == BridgeInv /\ PassOver => BridgeInv'
<1>1. SUFFICES ASSUME BridgeInv, PassOver PROVE BridgeInv'
  OBVIOUS
<1>2. /\ alive /\ requests # <<>> /\ requests' = Tail(requests)
      /\ UNCHANGED <<alive, bridgeLogical, bridgeVehicle, clientVars>>
      /\ \/ Answers(Head(requests), "error", 0)
         \/ lines' = lines
  BY <1>1 DEF PassOver, processVars
<1>3. BridgeTypeOK'
  BY <1>1, <1>2 DEF BridgeInv, BridgeTypeOK, clientVars
<1>4. CASE Answers(Head(requests), "error", 0)
  <2>1. "error" \in Failures \union AdapterAnswers /\ 0 \in Nat
    BY DEF Failures
  <2> QED
    BY <1>1, <1>2, <1>3, <1>4, <2>1, AnswerKeeps
<1>5. CASE lines' = lines
  <2>1. /\ requests' \in Seq(BridgeRequest) /\ Len(requests') = Len(requests) - 1
        /\ Len(requests) \in Nat \ {0} /\ Len(lines) \in Nat
        /\ \A i \in 1 .. Len(requests') : requests'[i] = requests[i + 1]
        /\ ReaderAlone' /\ AnswersInOrder' /\ InBuffer' = InBuffer /\ Answered' = Answered
        /\ UNCHANGED <<alive, calls, waiting, readers, torn, buffered, surplus, results>>
    BY <1>1, <1>2, RequestTaken
  <2>2. PipesTyped'
    BY <1>1, <1>2, <1>5, <2>1 DEF BridgeInv, PipesTyped
  <2>3. Pending' = Pending - 1 /\ Pending \in Nat /\ Pending' \in Nat /\ InBuffer \in {0, 1}
    BY <1>5, <2>1 DEF Pending, InBuffer
  <2> DEFINE h == [p \in 1 .. Pending' |-> IF p <= Len(lines) THEN p ELSE p + 1]
  <2>4. ASSUME NEW p \in 1 .. Pending' PROVE At(p)' = At(h[p])
    <3>1. CASE p <= Len(lines)
      BY <3>1, <1>5, <2>1 DEF At
    <3>2. CASE ~(p <= Len(lines))
      <4>1. /\ p - Len(lines) \in 1 .. Len(requests') /\ ~(p + 1 <= Len(lines))
            /\ p + 1 - Len(lines) = p - Len(lines) + 1
        BY <3>2, <1>5, <2>1, <2>3 DEF Pending
      <4>2. requests'[p - Len(lines)] = requests[p + 1 - Len(lines)]
        BY <4>1, <2>1
      <4> QED
        BY <3>2, <4>1, <4>2, <1>5 DEF At
    <3> QED
      BY <3>1, <3>2
  <2>5. Moves(h)
    <3>1. h \in [1 .. Pending' -> 1 .. Pending]
      BY <2>1, <2>3
    <3>2. \A p \in 1 .. Pending' : h[p] >= p + InBuffer - InBuffer'
      BY <2>1, <2>3
    <3>3. \A p, q \in 1 .. Pending' : p < q => h[p] < h[q]
      BY <2>1, <2>3
    <3>4. /\ alive' => alive /\ Pending' <= Pending - (InBuffer - InBuffer')
          /\ waiting' => waiting
      BY <2>1, <2>3
    <3> HIDE DEF h
    <3> QED
      BY <2>4, <3>1, <3>2, <3>3, <3>4 DEF Moves
  <2> HIDE DEF h
  <2>6. /\ \A line \in buffered' : line.call <= calls
        /\ ~torn =>
              \A j \in Answered' : \A p \in 1 .. Pending' : results'[j].call <= At(p)'
    BY <1>1, <2>1, <2>4, <2>5 DEF BridgeInv, NeverEarly, PipeInStep, Moves
  <2>7. NeverEarly' /\ PipeInStep'
    BY <1>1, <2>1, <2>2, <2>5, <2>6, MovesKeeps
  <2> QED
    BY <1>3, <2>1, <2>2, <2>7 DEF BridgeInv
<1> QED
  BY <1>2, <1>4, <1>5

LEMMA BridgeStep == BridgeInv /\ [BridgeNext]_bridgeVars => BridgeInv'
<1>1. BridgeInv /\ UNCHANGED bridgeVars => BridgeInv'
  <2>1. SUFFICES ASSUME BridgeInv, UNCHANGED bridgeVars PROVE BridgeInv'
    OBVIOUS
  <2>2. UNCHANGED <<alive, bridgeLogical, bridgeVehicle, requests, lines, calls, waiting, readers,
                    torn, buffered, surplus, results>>
    BY <2>1 DEF bridgeVars, processVars, clientVars
  <2>3. BridgeTypeOK' /\ PipesTyped' /\ ReaderAlone' /\ AnswersInOrder'
    BY <2>1, <2>2 DEF BridgeInv, BridgeTypeOK, PipesTyped, ReaderAlone, AnswersInOrder, Answered
  <2>4. /\ Pending' = Pending /\ \A p : At(p)' = At(p)
        /\ InBuffer' = InBuffer /\ Answered' = Answered
    BY <2>2 DEF Pending, At, InBuffer, Answered
  <2>5. NeverEarly' /\ PipeInStep'
    BY <2>1, <2>2, <2>4 DEF BridgeInv, NeverEarly, PipeInStep
  <2> QED
    BY <2>3, <2>5 DEF BridgeInv
<1> QED
  BY <1>1, CallKeeps, ReadKeeps, LoseLineKeeps, AttemptTimeoutKeeps, ServeKeeps,
     ServeThrowsKeeps, PassOverKeeps DEF BridgeNext

LEMMA BridgeInvariant == BridgeSpec => []BridgeInv
<1> QED
  BY BridgeFresh, BridgeStep, PTL DEF BridgeSpec

\* The two sides of the bridge keep their types, and a result is recorded for
\* every call but the one under way.
THEOREM BridgeTyped == BridgeSpec => []BridgeTypeOK
<1>1. BridgeInv => BridgeTypeOK
  BY DEF BridgeInv
<1> QED
  BY BridgeInvariant, <1>1, PTL

\* However many calls time out, requests are cut into lines and lines are torn: an
\* answer is never early; and as long as no two readers met in the buffer, answers
\* keep the order of the commands and are late by no more than the lines in excess.
THEOREM BridgeAnswersInOrder == BridgeSpec => []AnswersInOrder
<1>1. BridgeInv => AnswersInOrder
  BY DEF BridgeInv
<1> QED
  BY BridgeInvariant, <1>1, PTL
-----------------------------------------------------------------------------
(* The closed loop *)

Readings == Nat \union BOOLEAN \union Charges

\* Everything the loop reports.
Reported == [type : {"event", "telemetry"}, kind : {"event", "metric"}, source : {"ROVER"},
             origin : {"ROVER"}, app : {201}, seq : Nat,
             subject : {"COMMAND_VEHICLE_FEEDBACK"} \union {FeedbackMetrics[i] : i \in 1 .. 6},
             value : Readings \union AdapterAnswers]

FeedbackRow(i) == <<"ROVER", "ROVER", FeedbackMetrics[i]>>

\* The first n metrics of the ground are those of this vehicle.
RowsRead(table, n, a) ==
    \A i \in 1 .. 6 : i <= n =>
        /\ FeedbackRow(i) \in DOMAIN table
        /\ table[FeedbackRow(i)].value = Reading(FeedbackMetrics[i], a)

\* What is true between two reports of one command.
ReadSoFar(r, n, a) ==
    /\ Sized(r.stage, FeedbackCapacity, Reported)
    /\ r.next \in Nat /\ r.ok \in BOOLEAN
    /\ r.ok => RowsRead(r.stage.table, n, a)

CycleTyped ==
    /\ cycle = [status |-> cycle.status, todo |-> cycle.todo, processed |-> cycle.processed,
                stepsBefore |-> cycle.stepsBefore]
    /\ cycle.status \in CycleStatuses /\ cycle.todo \in Seq(Orders)
    /\ cycle.status = "running" => cycle.todo # <<>>

LoopInv ==
    /\ logical \in [Targets -> LogicalState]
    /\ vehicle \in AdapterType /\ vehicle.snapshot = vehicle.rover
    /\ Sized(loopEvents, EventCapacity, Reported)
    /\ Sized(loopTelemetry, FeedbackCapacity, Reported)
    /\ nextEvent \in Nat /\ nextFeedback \in Nat
    /\ CycleTyped
    /\ lastResult \in LoopStatuses
    /\ lastResult = "Applied" => RowsRead(loopTelemetry.table, 6, vehicle)
    /\ cycle.status = "Applied" => lastResult = "Applied"
    /\ cycle.status = "CommandFailed" => lastResult # "Applied"

LEMMA FeedbackRowsDiffer == \A i, j \in 1 .. 6 : FeedbackRow(i) = FeedbackRow(j) => i = j
<1>1. \A i \in 1 .. 6 : i \in {1, 2, 3, 4, 5, 6}
  OBVIOUS
<1>2. \A i, j \in {1, 2, 3, 4, 5, 6} : FeedbackMetrics[i] = FeedbackMetrics[j] => i = j
  BY DEF FeedbackMetrics
<1> QED
  BY <1>1, <1>2 DEF FeedbackRow

LEMMA ReadingTyped ==
    ASSUME NEW a \in AdapterType, NEW m
    PROVE  Reading(m, a) \in Readings \union AdapterAnswers
<1>1. /\ a.steps \in Nat /\ a.snapshot.place \in Nat
      /\ a.snapshot.moving \in BOOLEAN /\ a.snapshot.charge \in Charges
  BY DEF AdapterType, RoverType
<1> QED
  BY <1>1 DEF Reading, Readings

LEMMA ReadingSent ==
    ASSUME NEW i \in 1 .. 6, NEW next \in Nat, NEW v \in Readings \union AdapterAnswers
    PROVE  LET p == Feedback("telemetry", "metric", next, FeedbackMetrics[i], v)
           IN  p \in Reported /\ p.value = v /\ MetricKey(p) = FeedbackRow(i)
<1> DEFINE name == FeedbackMetrics[i]
<1>1. name \in {"COMMAND_VEHICLE_FEEDBACK"} \union {FeedbackMetrics[j] : j \in 1 .. 6}
  OBVIOUS
<1>2. FeedbackRow(i) = <<"ROVER", "ROVER", name>>
  BY DEF FeedbackRow
<1> HIDE DEF name
<1>3. Feedback("telemetry", "metric", next, name, v) =
        [type |-> "telemetry", kind |-> "metric", source |-> "ROVER", origin |-> "ROVER",
         app |-> 201, seq |-> next, subject |-> name, value |-> v]
  BY DEF Feedback
<1>4. Feedback("telemetry", "metric", next, name, v) \in Reported
  BY <1>1, <1>3 DEF Reported
<1> QED
  BY <1>2, <1>3, <1>4 DEF MetricKey, name

LEMMA EventSized ==
    ASSUME NEW s, NEW capacity \in Nat, NEW P, Sized(s, capacity, P), NEW p \in P
    PROVE  Sized(EventAfter(s, p), capacity, P)
<1>1. CASE EventAnswer(s, p) # "Accepted"
  BY <1>1 DEF EventAfter
<1>2. CASE EventAnswer(s, p) = "Accepted"
  <2> DEFINE table == FaultsAfter(s.table, p)
  <2>1. ~IsFull(s)
    BY <1>2 DEF EventAnswer
  <2>2. EventAfter(s, p) = Holding(s, StreamKey(p), p, table)
    BY <1>2 DEF EventAfter
  <2> HIDE DEF table
  <2> QED
    BY <2>1, <2>2, HoldingSized
<1> QED
  BY <1>1, <1>2

\* One metric more.
LEMMA ReportMetricReads ==
    ASSUME NEW r, NEW i \in 1 .. 6, NEW a \in AdapterType, ReadSoFar(r, i - 1, a),
           FeedbackCapacity \in Nat
    PROVE  ReadSoFar(ReportMetric(r, FeedbackMetrics[i], a), i, a)
<1> DEFINE v == Reading(FeedbackMetrics[i], a)
<1> DEFINE packet == Feedback("telemetry", "metric", r.next, FeedbackMetrics[i], v)
<1> DEFINE new == ReportMetric(r, FeedbackMetrics[i], a)
<1>1. CASE ~r.ok
  <2>1. ReportMetric(r, FeedbackMetrics[i], a) = r
    BY <1>1 DEF ReportMetric
  <2> QED
    BY <1>1, <2>1 DEF ReadSoFar
<1>2. CASE r.ok
  <2> DEFINE stage == TelemetryAfter(r.stage, packet)
  <2> DEFINE ok == (TelemetryAnswer(r.stage, packet) = "Accepted")
  <2>1. new = [stage |-> stage, next |-> r.next + 1, ok |-> ok]
    BY <1>2 DEF ReportMetric
  <2>2. v \in Readings \union AdapterAnswers
    BY ReadingTyped
  <2>3. packet \in Reported /\ packet.value = v /\ MetricKey(packet) = FeedbackRow(i)
    BY <2>2, ReadingSent DEF ReadSoFar
  <2> HIDE DEF packet
  <2>4. /\ Sized(stage, FeedbackCapacity, Reported)
        /\ ok => stage.table = Put(r.stage.table, FeedbackRow(i), packet)
    BY <2>3, TelemetrySized DEF ReadSoFar
  <2>5. ok \in BOOLEAN
    OBVIOUS
  <2> HIDE DEF stage, ok
  <2>6. ASSUME ok PROVE RowsRead(stage.table, i, a)
    <3>1. /\ DOMAIN stage.table = DOMAIN r.stage.table \union {FeedbackRow(i)}
          /\ stage.table[FeedbackRow(i)] = packet
          /\ \A k \in DOMAIN r.stage.table :
                k # FeedbackRow(i) => stage.table[k] = r.stage.table[k]
      BY <2>4, <2>6 DEF Put
    <3>2. ASSUME NEW j \in 1 .. 6, j <= i
          PROVE  /\ FeedbackRow(j) \in DOMAIN stage.table
                 /\ stage.table[FeedbackRow(j)].value = Reading(FeedbackMetrics[j], a)
      <4>1. CASE j = i
        BY <2>3, <3>1, <4>1
      <4>2. CASE j # i
        <5>1. FeedbackRow(j) # FeedbackRow(i)
          BY <4>2, FeedbackRowsDiffer
        <5>2. /\ FeedbackRow(j) \in DOMAIN r.stage.table
              /\ r.stage.table[FeedbackRow(j)].value = Reading(FeedbackMetrics[j], a)
          BY <1>2, <3>2, <4>2 DEF ReadSoFar, RowsRead
        <5> QED
          BY <3>1, <5>1, <5>2
      <4> QED
        BY <4>1, <4>2
    <3> QED
      BY <3>2 DEF RowsRead
  <2> HIDE DEF new, v
  <2>7. new.stage = stage /\ new.next = r.next + 1 /\ new.ok = ok
    BY <2>1
  <2>8. r.next + 1 \in Nat
    BY DEF ReadSoFar
  <2>9. ReadSoFar(new, i, a)
    BY <2>4, <2>5, <2>6, <2>7, <2>8 DEF ReadSoFar
  <2> QED
    BY <2>9 DEF new
<1> QED
  BY <1>1, <1>2 DEF ReadSoFar

LEMMA ReportMetricsRead ==
    ASSUME NEW a \in AdapterType, Sized(loopTelemetry, FeedbackCapacity, Reported),
           nextFeedback \in Nat, FeedbackCapacity \in Nat
    PROVE  ReadSoFar(ReportMetrics(a), 6, a)
<1> DEFINE none == [stage |-> loopTelemetry, next |-> nextFeedback, ok |-> TRUE]
<1> DEFINE x == ReportMetric(none, FeedbackMetrics[1], a)
<1> DEFINE y == ReportMetric(x, FeedbackMetrics[2], a)
<1> DEFINE heading == ReportMetric(y, FeedbackMetrics[3], a)
<1> DEFINE speed == ReportMetric(heading, FeedbackMetrics[4], a)
<1> DEFINE battery == ReportMetric(speed, FeedbackMetrics[5], a)
<1>0. ReportMetrics(a) = ReportMetric(battery, FeedbackMetrics[6], a)
  BY DEF ReportMetrics
<1>1. ReadSoFar(none, 0, a)
  BY DEF ReadSoFar, RowsRead
<1> HIDE DEF none
<1>2. ReadSoFar(x, 1, a)
  BY <1>1, ReportMetricReads, 1 - 1 = 0, 1 \in 1 .. 6
<1> HIDE DEF x
<1>3. ReadSoFar(y, 2, a)
  BY <1>2, ReportMetricReads, 2 - 1 = 1, 2 \in 1 .. 6
<1> HIDE DEF y
<1>4. ReadSoFar(heading, 3, a)
  BY <1>3, ReportMetricReads, 3 - 1 = 2, 3 \in 1 .. 6
<1> HIDE DEF heading
<1>5. ReadSoFar(speed, 4, a)
  BY <1>4, ReportMetricReads, 4 - 1 = 3, 4 \in 1 .. 6
<1> HIDE DEF speed
<1>6. ReadSoFar(battery, 5, a)
  BY <1>5, ReportMetricReads, 5 - 1 = 4, 5 \in 1 .. 6
<1> HIDE DEF battery
<1> QED
  BY <1>0, <1>6, ReportMetricReads, 6 - 1 = 5, 6 \in 1 .. 6

\* The reports of one command: what they leave of pipelines and answers.
LEMMA TellReads ==
    ASSUME Sized(loopEvents, EventCapacity, Reported),
           Sized(loopTelemetry, FeedbackCapacity, Reported),
           nextEvent \in Nat, nextFeedback \in Nat, vehicle' \in AdapterType,
           NEW physical \in AdapterAnswers, Tell(physical)
    PROVE  /\ Sized(loopEvents', EventCapacity, Reported)
           /\ Sized(loopTelemetry', FeedbackCapacity, Reported)
           /\ nextEvent' \in Nat /\ nextFeedback' \in Nat
           /\ lastResult' \in LoopStatuses
           /\ lastResult' # "LogicalExecutionFailed" /\ lastResult' # "threw"
           /\ lastResult' = "Applied" => RowsRead(loopTelemetry'.table, 6, vehicle')
<1> DEFINE event == Feedback("event", "event", nextEvent, "COMMAND_VEHICLE_FEEDBACK", physical)
<1> DEFINE told == EventAnswer(loopEvents, event)
<1> DEFINE none == [stage |-> loopTelemetry, next |-> nextFeedback, ok |-> TRUE]
<1> DEFINE report == IF told = "Accepted" THEN ReportMetrics(vehicle') ELSE none
<1>0. EventCapacity \in Nat /\ FeedbackCapacity \in Nat
  BY ClosedLoopAssumption
<1>1. event \in Reported
  BY DEF Feedback, Reported
<1>2. /\ loopEvents' = EventAfter(loopEvents, event) /\ nextEvent' = nextEvent + 1
      /\ loopTelemetry' = report.stage /\ nextFeedback' = report.next
      /\ lastResult' = FeedbackAnswer(physical, told, report)
  BY DEF Tell
<1>3. ReadSoFar(ReportMetrics(vehicle'), 6, vehicle')
  BY <1>0, ReportMetricsRead
<1> HIDE DEF event, told
<1>4. /\ Sized(report.stage, FeedbackCapacity, Reported) /\ report.next \in Nat
      /\ told = "Accepted" /\ report.ok => RowsRead(report.stage.table, 6, vehicle')
  BY <1>3 DEF ReadSoFar
<1> HIDE DEF report
<1>5. Sized(loopEvents', EventCapacity, Reported)
  BY <1>0, <1>1, <1>2, EventSized
<1>6. lastResult' \in {"FeedbackIngestionFailed", "PhysicalApplicationFailed", "Applied"}
  BY <1>2 DEF FeedbackAnswer
<1>7. lastResult' = "Applied" => told = "Accepted" /\ report.ok
  BY <1>2 DEF FeedbackAnswer
<1> QED
  BY <1>2, <1>4, <1>5, <1>6, <1>7 DEF LoopStatuses

LEMMA AnswerIsKnown ==
    ASSUME NEW a, NEW c, NEW draw
    PROVE  AdapterAnswer(a, c, draw) \in AdapterAnswers
BY DEF AdapterAnswer, AdapterAnswers

\* The snapshot is the rover after every command.
LEMMA SnapshotFollows ==
    ASSUME NEW a \in AdapterType, a.snapshot = a.rover, NEW c, NEW draw \in Draws
    PROVE  AdapterAfter(a, c, draw).snapshot = AdapterAfter(a, c, draw).rover
<1>1. ~Synchronises(a, c) => RoverAfter(a, c, draw) = a.rover
  BY DEF Synchronises, RoverAfter, Drives
<1> QED
  BY <1>1 DEF AdapterAfter

\* The logic lets nothing move in safe mode, and only the rover moves.
LEMMA LogicHolds ==
    ASSUME NEW a \in AdapterType, a.snapshot = a.rover, NEW c, NEW draw, NEW s,
           LogicalAnswer(s, c) = "Executed", AdapterAfter(a, c, draw) # a
    PROVE  c.target = "ROVER" /\ ~s.safe
<1>0. a = [rover |-> a.rover, snapshot |-> a.snapshot, steps |-> a.steps]
  BY DEF AdapterType
<1>1. Synchronises(a, c)
  <2>1. SUFFICES ASSUME ~Synchronises(a, c) PROVE AdapterAfter(a, c, draw) = a
    OBVIOUS
  <2>2. RoverAfter(a, c, draw) = a.rover /\ ~Drives(a, c)
    BY <2>1 DEF Synchronises, RoverAfter, Drives
  <2> QED
    BY <1>0, <2>1, <2>2 DEF AdapterAfter
<1>2. c.target = "ROVER" /\ c.opcode \in {"START_ROVER", "STOP_ROVER", "STOP", "DRIVE"}
  BY <1>1 DEF Synchronises, Drives, IsStop
<1>3. c.opcode \notin AllowedInSafeMode
  BY <1>2 DEF AllowedInSafeMode
<1>4. ~s.safe
  BY <1>3 DEF LogicalAnswer
<1> QED
  BY <1>2, <1>4

LEMMA OrderIsCommand ==
    ASSUME NEW c \in Orders
    PROVE  IsCommand(c)
<1>1. [target |-> c.target, opcode |-> c.opcode, parameters |-> c.parameters] \in CommandType
  BY ClosedLoopAssumption
<1> DEFINE target == c.target  opcode == c.opcode  parameters == c.parameters
<1>2. [target |-> target, opcode |-> opcode, parameters |-> parameters] \in CommandType
  BY <1>1
<1> HIDE DEF target, opcode, parameters
<1>3. opcode \in Opcodes /\ (opcode = "SET_MODE" => parameters \in Modes \union {""})
  BY <1>2 DEF CommandType
<1> QED
  BY <1>3 DEF IsCommand, opcode, parameters

\* The state of a command's target, and what the logic makes of all of them.
LEMMA LogicStays ==
    ASSUME NEW c \in Orders, logical \in [Targets -> LogicalState], ExecuteLogically(c)
    PROVE  logical' \in [Targets -> LogicalState]
<1>1. ASSUME NEW t \in Targets, t = c.target
      PROVE  LogicalAfter(logical[t], c) \in LogicalState
  BY <1>1, OrderIsCommand, LogicalTyped
<1> QED
  BY <1>1 DEF ExecuteLogically

LEMMA LoopInitInv == LoopInit => LoopInv
<1> SUFFICES ASSUME LoopInit PROVE LoopInv
  OBVIOUS
<1> USE ClosedLoopAssumption
<1>1. logical \in [Targets -> LogicalState]
  <2>1. StandBy \in LogicalState
    BY DEF StandBy, LogicalState, Modes
  <2> QED
    BY <2>1 DEF LoopInit
<1>2. vehicle \in AdapterType /\ vehicle.snapshot = vehicle.rover
  <2>1. StowedRover \in RoverType
    BY DEF StowedRover, RoverType, RoverModes, Charges
  <2> QED
    BY <2>1 DEF LoopInit, NewAdapter, AdapterType
<1>3. /\ Sized(loopEvents, EventCapacity, Reported)
      /\ Sized(loopTelemetry, FeedbackCapacity, Reported)
  BY NewSized DEF LoopInit
<1>4. CycleTyped /\ cycle.status = "none"
  <2>1. <<>> \in Seq(Orders)
    OBVIOUS
  <2> QED
    BY <2>1 DEF LoopInit, NoCycle, CycleTyped, CycleStatuses
<1> QED
  BY <1>1, <1>2, <1>3, <1>4 DEF LoopInit, LoopInv, LoopStatuses

\* One command, whatever becomes of it.
Processed ==
    /\ logical' \in [Targets -> LogicalState]
    /\ vehicle' \in AdapterType /\ vehicle'.snapshot = vehicle'.rover
    /\ Sized(loopEvents', EventCapacity, Reported)
    /\ Sized(loopTelemetry', FeedbackCapacity, Reported)
    /\ nextEvent' \in Nat /\ nextFeedback' \in Nat
    /\ lastResult' \in LoopStatuses
    /\ lastResult' = "Applied" => RowsRead(loopTelemetry'.table, 6, vehicle')

LEMMA ProcessKeeps ==
    ASSUME LoopInv, NEW c \in Orders, Process(c)
    PROVE  Processed
<1>1. CASE ProcessRefused(c)
  <2>1. logical' \in [Targets -> LogicalState]
    BY <1>1, LogicStays DEF ProcessRefused, LoopInv
  <2> QED
    BY <1>1, <2>1 DEF ProcessRefused, KeepReports, LoopInv, Processed, LoopStatuses
<1>2. CASE ProcessThrows(c)
  <2>1. logical' \in [Targets -> LogicalState]
    BY <1>2, LogicStays DEF ProcessThrows, LoopInv
  <2> QED
    BY <1>2, <2>1 DEF ProcessThrows, KeepReports, LoopInv, Processed, LoopStatuses
<1>3. ASSUME NEW draw \in Draws, ProcessApplied(c, draw)
      PROVE  Processed
  <2>1. logical' \in [Targets -> LogicalState]
    BY <1>3, LogicStays DEF ProcessApplied, LoopInv
  <2>2. vehicle' = AdapterAfter(vehicle, c, draw) /\ Tell(AdapterAnswer(vehicle, c, draw))
    BY <1>3 DEF ProcessApplied
  <2>3. vehicle' \in AdapterType /\ vehicle'.snapshot = vehicle'.rover
    BY <2>2, AdapterTyped, SnapshotFollows DEF LoopInv
  <2>4. /\ Sized(loopEvents, EventCapacity, Reported)
        /\ Sized(loopTelemetry, FeedbackCapacity, Reported)
        /\ nextEvent \in Nat /\ nextFeedback \in Nat
    BY DEF LoopInv
  <2> DEFINE physical == AdapterAnswer(vehicle, c, draw)
  <2>5. physical \in AdapterAnswers
    BY AnswerIsKnown
  <2> HIDE DEF physical
  <2>6. Tell(physical)
    BY <2>2 DEF physical
  <2> QED
    BY <2>1, <2>3, <2>4, <2>5, <2>6, TellReads DEF Processed
<1> QED
  BY <1>1, <1>2, <1>3 DEF Process

LEMMA LoopNextInv == LoopInv /\ [LoopNext]_loopVars => LoopInv'
<1> SUFFICES ASSUME LoopInv, [LoopNext]_loopVars PROVE LoopInv'
  OBVIOUS
<1>1. ASSUME NEW n \in 0 .. CycleLength, NEW orders \in [1 .. n -> Orders], StartCycle(orders)
      PROVE  LoopInv'
  <2> DEFINE status == IF orders = <<>> THEN "EmptyCycle"
                       ELSE IF ~StrictlyIncreasing(orders) THEN "SequenceViolation"
                       ELSE "running"
  <2>1. cycle' = [status |-> status, todo |-> orders, processed |-> 0,
                  stepsBefore |-> vehicle.steps]
    BY <1>1 DEF StartCycle, NoCycle
  <2>2. status \in {"EmptyCycle", "SequenceViolation", "running"}
        /\ (status = "running" => orders # <<>>)
    OBVIOUS
  <2>3. orders \in Seq(Orders)
    BY ClosedLoopAssumption, n \in Nat
  <2> HIDE DEF status
  <2>4. CycleTyped' /\ cycle'.status \notin {"Applied", "CommandFailed"}
    BY <2>1, <2>2, <2>3 DEF CycleTyped, CycleStatuses
  <2>5. UNCHANGED <<logical, vehicle, loopEvents, loopTelemetry, nextEvent, nextFeedback,
                    lastResult>>
    BY <1>1 DEF StartCycle, KeepReports
  <2> QED
    BY <2>4, <2>5 DEF LoopInv
<1>2. CASE ProcessNext
  <2>1. /\ cycle.status = "running" /\ cycle.todo # <<>> /\ cycle.todo \in Seq(Orders)
        /\ Process(Head(cycle.todo))
    BY <1>2 DEF ProcessNext, LoopInv, CycleTyped
  <2>2. Head(cycle.todo) \in Orders /\ Tail(cycle.todo) \in Seq(Orders)
    BY <2>1
  <2>3. Processed
    BY <2>1, <2>2, ProcessKeeps
  <2> DEFINE Same(status) == [status |-> status, todo |-> cycle.todo,
                              processed |-> cycle.processed, stepsBefore |-> cycle.stepsBefore]
  <2> DEFINE rest == Tail(cycle.todo)
             further == IF rest = <<>> THEN "Applied" ELSE "running"
             counted == cycle.processed + 1
  <2>4. CASE lastResult' = "threw"
    <3>1. cycle' = Same("threw")
      BY <1>2, <2>4 DEF ProcessNext, LoopInv, CycleTyped
    <3>2. CycleTyped' /\ cycle'.status = "threw"
      BY <2>1, <3>1 DEF CycleTyped, CycleStatuses
    <3> QED
      BY <2>3, <3>2 DEF Processed, LoopInv
  <2>5. CASE lastResult' \notin {"threw", "Applied"}
    <3>1. cycle' = Same("CommandFailed")
      BY <1>2, <2>5 DEF ProcessNext, LoopInv, CycleTyped
    <3>2. CycleTyped' /\ cycle'.status = "CommandFailed"
      BY <2>1, <3>1 DEF CycleTyped, CycleStatuses
    <3> QED
      BY <2>3, <2>5, <3>2 DEF Processed, LoopInv
  <2>6. CASE lastResult' = "Applied"
    <3>1. cycle' = [cycle EXCEPT !.todo = rest, !.processed = counted, !.status = further]
      BY <1>2, <2>1, <2>6 DEF ProcessNext
    <3> HIDE DEF rest, counted, further
    <3>2. cycle' = [status |-> further, todo |-> rest, processed |-> counted,
                    stepsBefore |-> cycle.stepsBefore]
      BY <3>1 DEF LoopInv, CycleTyped
    <3>3. further \in {"Applied", "running"} /\ (further = "running" => rest # <<>>)
      BY DEF further
    <3>4. CycleTyped' /\ cycle'.status \in {"Applied", "running"}
      BY <2>2, <3>2, <3>3 DEF CycleTyped, CycleStatuses, rest
    <3> QED
      BY <2>3, <2>6, <3>4 DEF Processed, LoopInv
  <2> QED
    BY <2>4, <2>5, <2>6
<1>3. CASE ResetLoop
  <2> USE ClosedLoopAssumption
  <2>1. StandBy \in LogicalState
    BY DEF StandBy, LogicalState, Modes
  <2>2. StowedRover \in RoverType
    BY DEF StowedRover, RoverType, RoverModes, Charges
  <2>3. NewAdapter \in AdapterType /\ NewAdapter.snapshot = NewAdapter.rover
    BY <2>2 DEF NewAdapter, AdapterType
  <2>4. /\ Sized(loopEvents', EventCapacity, Reported)
        /\ Sized(loopTelemetry', FeedbackCapacity, Reported)
    BY <1>3, ClearedSized DEF ResetLoop, LoopInv
  <2>5. <<>> \in Seq(Orders)
    OBVIOUS
  <2>6. CycleTyped' /\ cycle'.status = "none"
    BY <1>3, <2>5 DEF ResetLoop, NoCycle, CycleTyped, CycleStatuses
  <2> QED
    BY <1>3, <2>1, <2>3, <2>4, <2>6 DEF ResetLoop, LoopInv, LoopStatuses
<1>4. CASE UNCHANGED loopVars
  BY <1>4 DEF loopVars, LoopInv, CycleTyped
<1> QED
  BY <1>1, <1>2, <1>3, <1>4 DEF LoopNext

(* Type correctness of the loop: its pipelines never outgrow their archive. *)
THEOREM LoopTyped == LoopSpec => []LoopTypeOK
<1>1. LoopInv => LoopTypeOK
  BY DEF LoopInv, Sized, CycleTyped, LoopTypeOK
<1> QED
  BY <1>1, LoopInitInv, LoopNextInv, PTL DEF LoopSpec

(* For any orders, sequence numbers and archive sizes: an answer "Applied"  *)
(* leaves the ground with the six metrics of the vehicle as it now is, the  *)
(* cycle ends as its last command did, and the snapshot is the vehicle.     *)
THEOREM FeedbackIsTheVehicle == LoopSpec => []FeedbackTellsTheVehicle
<1>1. LoopInv => FeedbackTellsTheVehicle
  <2>1. DOMAIN FeedbackMetrics = 1 .. 6
    BY DEF FeedbackMetrics
  <2> QED
    BY <2>1 DEF LoopInv, RowsRead, FeedbackRow, FeedbackTellsTheVehicle
<1> QED
  BY <1>1, LoopInitInv, LoopNextInv, PTL DEF LoopSpec

(* The vehicle changes only while a cycle runs, by a command to the rover   *)
(* that executed logically, and never while the rover is in safe mode.      *)
THEOREM TheLogicIsObeyed == LoopSpec => VehicleObeysTheLogic
<1> DEFINE Obeys == ResetLoop \/
       (vehicle' # vehicle =>
           /\ cycle.status = "running" /\ ~logical["ROVER"].safe
           /\ lastResult' # "LogicalExecutionFailed"
           /\ Head(cycle.todo).target = "ROVER")
<1>1. LoopInv /\ [LoopNext]_loopVars => [Obeys]_loopVars
  <2> SUFFICES ASSUME LoopInv, LoopNext, vehicle' # vehicle, ~ResetLoop
               PROVE  /\ cycle.status = "running" /\ ~logical["ROVER"].safe
                      /\ lastResult' # "LogicalExecutionFailed"
                      /\ Head(cycle.todo).target = "ROVER"
    BY Zenon DEF Obeys
  <2>1. ProcessNext
    BY DEF LoopNext, StartCycle
  <2> DEFINE c == Head(cycle.todo)
  <2>2. cycle.status = "running" /\ Process(c)
    BY <2>1 DEF ProcessNext
  <2> HIDE DEF c
  <2>3. PICK draw \in Draws : ProcessApplied(c, draw)
    BY <2>2 DEF Process, ProcessRefused, ProcessThrows
  <2> DEFINE physical == AdapterAnswer(vehicle, c, draw)
  <2>4. /\ LogicalAnswer(StateOfTarget(c), c) = "Executed"
        /\ vehicle' = AdapterAfter(vehicle, c, draw) /\ Tell(physical)
    BY <2>3 DEF ProcessApplied, Executes
  <2>5. c.target = "ROVER" /\ ~StateOfTarget(c).safe
    BY <2>4, LogicHolds DEF LoopInv
  <2>6. StateOfTarget(c) = logical["ROVER"]
    BY <2>5 DEF StateOfTarget, Targets
  <2>7. lastResult' # "LogicalExecutionFailed"
    <3> HIDE DEF physical
    <3> QED
      BY <2>4 DEF Tell, FeedbackAnswer
  <2> QED
    BY <2>2, <2>5, <2>6, <2>7 DEF c
<1> QED
  BY <1>1, LoopInitInv, LoopNextInv, PTL DEF LoopSpec, VehicleObeysTheLogic
=============================================================================
