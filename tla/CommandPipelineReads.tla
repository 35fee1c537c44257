------------------------ MODULE CommandPipelineReads ------------------------
(***************************************************************************)
(* The read model behind GET /v1/commands/execution agrees with the stored  *)
(* records, for any commands, workers, operators, queue, restarts and       *)
(* losses.  Two facts carry it.  Whatever a message says of an outcome, a   *)
(* record or a dead-letter row says too (Said), and it stays so.  And while *)
(* nothing fails, what is stored is on its way (Underway), in the order     *)
(* that the reconciler's transition table asks for (InTurn), so it is not   *)
(* refused when it comes.                                                   *)
(* The last part shows that no command slips away between its RECEIVED and  *)
(* its QUEUED record.                                                       *)
(***************************************************************************)
EXTENDS CommandPipelineSafety

Outcomes == {"COMPLETED", "FAILED", "TIMEOUT"}
Heard    == {"", "SENT", "ACKNOWLEDGED", "EXECUTING"} \union Outcomes

\* Nothing failed, nothing was restarted: a message may at most come twice.
Calm == Faults \subseteq {"duplicate"} /\ crashes = 0

\* What a message or the read model may say of a command.
Said(c, state) ==
    /\ state \in Heard
    /\ state = "COMPLETED" => "COMPLETED" \in durable[c]
    /\ state \in {"FAILED", "TIMEOUT"} =>
           state \in durable[c] \/ (~Calm /\ dlqStored[c] # NoEntry)

Truthful(m) ==
    IF m.kind = "command" THEN m.state \in CommandTags ELSE Said(m.cmd, m.state)

LogTrue  == \A p \in Partitions : \A i \in 1 .. Len(log[p]) : Truthful(log[p][i])
EngineOK == \A c \in Commands : engine[c] \in {"", "RECEIVED"}
ExecTrue == EngineOK /\ \A c \in Commands : Said(c, exec[c])
InHand   == reading # "fetch" => Next1(rpart).kind = "command"

\* A run has no outcome yet, and stored what it says before it goes on.
OneOutcome == \A c \in Commands : \A s, t \in durable[c] \intersect Outcomes : s = t

Stored(c, pc) ==
    /\ pc \in RunPcs \ {"telemetry"} => durable[c] \intersect Outcomes = {}
    /\ pc \in {"executing", "completed"} => "ACK" \in durable[c]
    /\ pc = "completed" => "EXECUTING" \in durable[c]

RunsStore == \A w \in Workers : wpc[w] # "idle" => Stored(wcmd[w], wpc[w])

\* Without failures a dead letter goes by the state the run reported.
DeadLettersTrue ==
    Calm => /\ \A w \in Workers :
                   wpc[w] \in {"enqueue", "persist"} => failure[w] \in durable[wcmd[w]]
            /\ \A c \in Commands : dlq[c].exec # "" => dlq[c].exec \in durable[c]

\* The states from which feedback does not lead back before this one.
Beyond(state) ==
    IF state = "ACKNOWLEDGED" THEN {"ACKNOWLEDGED", "EXECUTING"} \union Outcomes
    ELSE IF state = "EXECUTING" THEN {"EXECUTING"} \union Outcomes
    ELSE {state}

Vehicle == log["vehicle"]

\* The read model is there, or gets there by the first n messages of the vehicle.
Comes(c, state, n) ==
    \/ exec[c] \in Beyond(state)
    \/ \E j \in 1 .. n : Vehicle[j].cmd = c /\ Vehicle[j].state = state

\* Feedback comes in the order the transition table asks for,
InTurn ==
    \A i \in 1 .. Len(Vehicle) :
        /\ Vehicle[i].state = "EXECUTING" => Comes(Vehicle[i].cmd, "ACKNOWLEDGED", i - 1)
        /\ Vehicle[i].state = "COMPLETED" => Comes(Vehicle[i].cmd, "EXECUTING", i - 1)

\* and what is stored comes.
Underway ==
    \A c \in Commands : \A tag \in {"ACK", "EXECUTING"} \union Outcomes :
        tag \in durable[c] => Comes(c, StateOf(tag), Len(Vehicle))

\* What is stored, on its way and shown.
FeedInv ==
    /\ LogTrue /\ ExecTrue /\ InHand /\ OneOutcome
    /\ Calm => InTurn /\ Underway

ReadInv == FeedInv /\ RunsStore /\ DeadLettersTrue
-----------------------------------------------------------------------------
(* The transition table *)

\* What one more state makes of the read model's.
Told(e, state) ==
    IF state \notin {"RECEIVED", ""} /\ ValidCommandExecutionTransition(e, state) THEN state ELSE e

\* An outcome stays, no feedback leads back, and feedback in its turn arrives.
LEMMA ToldInTurn ==
    ASSUME NEW e \in Heard, NEW state \in Heard
    PROVE  /\ Told(e, state) \in {e, state}
           /\ e \in Outcomes => Told(e, state) = e
           /\ \A s \in {"ACKNOWLEDGED", "EXECUTING"} :
                  e \in Beyond(s) => Told(e, state) \in Beyond(s)
           /\ state = "ACKNOWLEDGED" => Told(e, state) \in Beyond("ACKNOWLEDGED")
           /\ state = "EXECUTING" /\ e \in Beyond("ACKNOWLEDGED")
                => Told(e, state) \in Beyond("EXECUTING")
           /\ state = "COMPLETED" /\ e \in Beyond("EXECUTING") => Told(e, state) \in Outcomes
           /\ state \in {"FAILED", "TIMEOUT"} => Told(e, state) \in Outcomes
<1> USE DEF Told, Heard, Outcomes, Beyond, ValidCommandExecutionTransition, StageNext
<1>1. CASE e = ""
  BY <1>1 DEF ExecutionStates, Terminal
<1>2. CASE e = "SENT"
  BY <1>2
<1>3. CASE e = "ACKNOWLEDGED"
  BY <1>3
<1>4. CASE e = "EXECUTING"
  BY <1>4
<1>5. CASE e \in Outcomes
  BY <1>5
<1> QED
  BY <1>1, <1>2, <1>3, <1>4, <1>5

LEMMA ReadParts ==
    ASSUME TInv
    PROVE  /\ exec \in [Commands -> ExecutionStates \union {""}]
           /\ engine \in [Commands -> Lifecycles \union {""}]
           /\ rpart \in Partitions /\ Partitions = {"ground", "vehicle"}
           /\ log \in [Partitions -> Seq(Messages)]
           /\ \A p \in Partitions : log[p] \in Seq(Messages)
           /\ crashes \in Nat /\ (reading # "fetch" => log[rpart] # <<>>)
BY DEF TInv, TypeOK, ReadTypeOK, KafkaTypeOK, WorldTypeOK, ReadingOK, Partitions

\* A command record moves the engine, at most to RECEIVED; feedback the read model.
LEMMA RoutedTells ==
    ASSUME TInv, ExecTrue, NEW m \in Messages, Truthful(m), Routed(m)
    PROVE  /\ \A c \in Commands : c # m.cmd => exec'[c] = exec[c]
           /\ EngineOK'
           /\ m.kind = "command" => exec' = exec
           /\ m.kind = "event" => exec'[m.cmd] = Told(exec[m.cmd], m.state)
<1>1. m.cmd \in Commands /\ m.kind \in {"command", "event"}
  BY DEF Messages
<1>2. \A c \in Commands : engine[c] \in {"", "RECEIVED"}
  BY DEF ExecTrue, EngineOK
<1>3. CASE m.kind = "event"
  <2>1. Reconcile(m) /\ engine' = engine
    BY <1>3 DEF Routed
  <2>2. /\ exec'[m.cmd] = Told(exec[m.cmd], m.state)
        /\ \A c \in Commands : c # m.cmd => exec'[c] = exec[c]
    BY <1>1, <2>1, ReadParts DEF Reconcile, Told
  <2> QED
    BY <1>2, <1>3, <2>1, <2>2 DEF EngineOK
<1>4. CASE m.kind = "command" /\ IsValidCommandTransition(engine[m.cmd], m.state)
  <2>1. m.state = "RECEIVED"
    <3>1. m.state \in {"RECEIVED", "QUEUED", "SENT"}
      BY <1>4 DEF Truthful, CommandTags
    <3>2. m.state \in {"RECEIVED", "VALIDATED", "REJECTED"}
      BY <1>1, <1>2, <1>4 DEF IsValidCommandTransition
    <3> QED
      BY <3>1, <3>2
  <2>2. Reconcile(m) /\ engine' = [engine EXCEPT ![m.cmd] = m.state]
    BY <1>4 DEF Routed
  <2>3. exec' = exec
    BY <2>1, <2>2 DEF Reconcile
  <2> QED
    BY <1>1, <1>2, <1>4, <2>1, <2>2, <2>3, ReadParts DEF EngineOK
<1>5. CASE m.kind = "command" /\ ~IsValidCommandTransition(engine[m.cmd], m.state)
  <2>1. exec' = exec /\ engine' = engine
    BY <1>5 DEF Routed
  <2> QED
    BY <1>2, <1>5, <2>1 DEF EngineOK
<1> QED
  BY <1>1, <1>3, <1>4, <1>5
-----------------------------------------------------------------------------
(* What is said stays true *)

\* The records of a step: none is lost, no row disappears, no calm returns.
Keeps ==
    /\ \A d \in Commands : durable[d] \subseteq durable'[d]
    /\ \A d \in Commands : dlqStored[d] # NoEntry => dlqStored'[d] # NoEntry
    /\ Calm' => Calm

LEMMA SaidKept ==
    ASSUME Keeps, NEW c \in Commands, NEW state, Said(c, state)
    PROVE  Said(c, state)'
BY DEF Keeps, Said

LEMMA TruthKept ==
    ASSUME Keeps, NEW m \in Messages, Truthful(m)
    PROVE  Truthful(m)'
<1>1. m.cmd \in Commands
  BY DEF Messages
<1>2. CASE m.kind = "command"
  BY <1>2 DEF Truthful
<1>3. CASE m.kind # "command"
  <2>1. Said(m.cmd, m.state)
    BY <1>3 DEF Truthful
  <2>2. Said(m.cmd, m.state)'
    BY <1>1, <2>1, SaidKept
  <2> QED
    BY <1>3, <2>2 DEF Truthful
<1> QED
  BY <1>2, <1>3

\* A log whose messages are old ones or truthful is truthful.
LEMMA LogTrueKept ==
    ASSUME TInv, LogTrue, Keeps,
           \A p \in Partitions : \A i \in 1 .. Len(log'[p]) :
               \/ \E j \in 1 .. Len(log[p]) : log'[p][i] = log[p][j]
               \/ \E m \in Messages : log'[p][i] = m /\ Truthful(m)'
    PROVE  LogTrue'
<1> SUFFICES ASSUME NEW p \in Partitions, NEW i \in 1 .. Len(log'[p])
             PROVE  Truthful(log[p][i])'
  BY DEF LogTrue
<1>1. PICK m \in Messages : log'[p][i] = m /\ Truthful(m)'
  <2>1. CASE \E j \in 1 .. Len(log[p]) : log'[p][i] = log[p][j]
    <3>1. PICK j \in 1 .. Len(log[p]) : log'[p][i] = log[p][j]
      BY <2>1
    <3>2. PICK m \in Messages : m = log[p][j]
      <4>1. log[p] \in Seq(Messages)
        BY ReadParts
      <4>2. log[p][j] \in Messages
        BY <4>1
      <4> QED
        BY <4>2
    <3>3. Truthful(m)
      BY <3>2 DEF LogTrue
    <3>4. Truthful(m)'
      BY <3>3, TruthKept
    <3> QED
      BY <3>1, <3>2, <3>4
  <2> QED
    BY <2>1
<1> QED
  BY <1>1

LEMMA PublishedIs ==
    ASSUME TInv, NEW p \in Partitions, NEW m \in Messages, Publish(p, m)
    PROVE  /\ \A q \in Partitions : q # p => log'[q] = log[q]
           /\ log'[p] \in {log[p], Append(log[p], m), log[p] \o <<m, m>>}
           /\ Len(log[p]) <= Len(log'[p]) /\ Len(log[p]) \in Nat /\ Len(log'[p]) \in Nat
           /\ \A i \in 1 .. Len(log[p]) : log'[p][i] = log[p][i]
           /\ \A i \in 1 .. Len(log'[p]) : i > Len(log[p]) => log'[p][i] = m
           /\ Calm => Len(log'[p]) > Len(log[p])
<1>1. log \in [Partitions -> Seq(Messages)] /\ log[p] \in Seq(Messages)
  BY ReadParts
<1>2. \A q \in Partitions : q # p => log'[q] = log[q]
  BY <1>1 DEF Publish
<1>3. CASE log' = [log EXCEPT ![p] = Append(@, m)]
  <2>1. log'[p] = Append(log[p], m)
    BY <1>1, <1>3
  <2> QED
    BY <1>1, <1>2, <2>1
<1>4. CASE "publish" \in Faults /\ UNCHANGED log
  BY <1>1, <1>2, <1>4 DEF Calm
<1>5. CASE log' = [log EXCEPT ![p] = @ \o <<m, m>>]
  <2>1. log'[p] = log[p] \o <<m, m>>
    BY <1>1, <1>5
  <2>2. <<m, m>> \in Seq(Messages) /\ Len(<<m, m>>) = 2 /\ <<m, m>>[1] = m /\ <<m, m>>[2] = m
    OBVIOUS
  <2>3. Len(log'[p]) = Len(log[p]) + 2
    BY <1>1, <2>1, <2>2
  <2>4. \A i \in 1 .. Len(log'[p]) : i > Len(log[p]) => log'[p][i] = m
    <3> SUFFICES ASSUME NEW i \in 1 .. Len(log'[p]), i > Len(log[p]) PROVE log'[p][i] = m
      OBVIOUS
    <3>1. log'[p][i] = <<m, m>>[i - Len(log[p])] /\ i - Len(log[p]) \in {1, 2}
      BY <1>1, <2>1, <2>2, <2>3
    <3> QED
      BY <2>2, <3>1
  <2> QED
    BY <1>1, <1>2, <2>1, <2>3, <2>4
<1> QED
  BY <1>3, <1>4, <1>5 DEF Publish
\* What one more message does to the logs: those before it stay, in their places.
LEMMA LogTruePublished ==
    ASSUME TInv, LogTrue, Keeps, NEW p \in Partitions, NEW m \in Messages, Publish(p, m),
           Truthful(m)'
    PROVE  LogTrue'
<1>1. ASSUME NEW q \in Partitions, NEW i \in 1 .. Len(log'[q])
      PROVE  \/ \E j \in 1 .. Len(log[q]) : log'[q][i] = log[q][j]
             \/ \E n \in Messages : log'[q][i] = n /\ Truthful(n)'
  <2>1. CASE q # p
    BY <2>1, PublishedIs
  <2>2. CASE q = p /\ i <= Len(log[p])
    <3>1. /\ Len(log[p]) \in Nat /\ Len(log'[p]) \in Nat
          /\ \A j \in 1 .. Len(log[p]) : log'[p][j] = log[p][j]
      BY PublishedIs
    <3>2. i \in 1 .. Len(log[p])
      BY <2>2, <3>1
    <3>3. log'[p][i] = log[p][i]
      BY <3>1, <3>2
    <3> QED
      BY <2>2, <3>2, <3>3
  <2>3. CASE q = p /\ ~(i <= Len(log[p]))
    <3>1. i > Len(log[p])
      BY <2>3, PublishedIs
    <3>2. log'[p][i] = m
      BY <2>3, <3>1, PublishedIs
    <3> QED
      BY <2>3, <3>2
  <2> QED
    BY <2>1, <2>2, <2>3
<1> QED
  BY <1>1, LogTrueKept

LEMMA LogTrueSame ==
    ASSUME TInv, LogTrue, Keeps, UNCHANGED log
    PROVE  LogTrue'
<1>1. \A q \in Partitions : \A i \in 1 .. Len(log'[q]) :
          \E j \in 1 .. Len(log[q]) : log'[q][i] = log[q][j]
  OBVIOUS
<1> QED
  BY <1>1, LogTrueKept

LEMMA ExecTrueSame ==
    ASSUME ExecTrue, Keeps, UNCHANGED <<exec, engine>>
    PROVE  ExecTrue'
<1>0. EngineOK'
  BY DEF ExecTrue, EngineOK
<1> SUFFICES ASSUME NEW c \in Commands PROVE Said(c, exec[c])'
  BY <1>0 DEF ExecTrue
<1>1. PICK e : e = exec[c]
  OBVIOUS
<1>2. Said(c, e)
  BY <1>1 DEF ExecTrue
<1>3. Said(c, e)'
  BY <1>2, SaidKept
<1> QED
  BY <1>1, <1>3

LEMMA InHandKept ==
    ASSUME TInv, InHand, UNCHANGED <<reading, rpart>>,
           UNCHANGED log \/ \E p \in Partitions, m \in Messages : Publish(p, m)
    PROVE  InHand'
BY ReadParts, HeadKept DEF InHand, Next1

\* The vehicle's log with more behind it: what came in turn still does.
Extended ==
    /\ Len(log["vehicle"]) \in Nat /\ Len(log'["vehicle"]) \in Nat
    /\ Len(log["vehicle"]) <= Len(log'["vehicle"])
    /\ \A i \in 1 .. Len(log["vehicle"]) : log'["vehicle"][i] = log["vehicle"][i]

LEMMA ComesKept ==
    ASSUME Extended, UNCHANGED exec, NEW c \in Commands, NEW state, NEW n \in Nat, NEW k \in Nat,
           n <= Len(Vehicle), n <= k, Comes(c, state, n)
    PROVE  Comes(c, state, k)'
<1>1. CASE exec[c] \in Beyond(state)
  BY <1>1 DEF Comes
<1>2. CASE \E j \in 1 .. n : Vehicle[j].cmd = c /\ Vehicle[j].state = state
  <2>1. PICK j \in 1 .. n : Vehicle[j].cmd = c /\ Vehicle[j].state = state
    BY <1>2
  <2>2. j \in 1 .. k /\ j \in 1 .. Len(log["vehicle"])
    BY DEF Vehicle, Extended
  <2>3. log'["vehicle"][j] = log["vehicle"][j]
    BY <2>2 DEF Extended
  <2> QED
    BY <2>1, <2>2, <2>3 DEF Comes, Vehicle
<1> QED
  BY <1>1, <1>2 DEF Comes

LEMMA InTurnExtended ==
    ASSUME TInv, InTurn, Underway, Extended, UNCHANGED exec, NEW m \in Messages,
           \A i \in 1 .. Len(log'["vehicle"]) :
               i > Len(log["vehicle"]) => log'["vehicle"][i] = m,
           m.state = "EXECUTING" => "ACK" \in durable[m.cmd],
           m.state = "COMPLETED" => "EXECUTING" \in durable[m.cmd]
    PROVE  InTurn'
<1> DEFINE last == Len(log["vehicle"])
<1>0. last \in Nat /\ Len(log'["vehicle"]) \in Nat /\ last = Len(Vehicle)
  BY DEF Extended, Vehicle
<1> SUFFICES ASSUME NEW i \in 1 .. Len(log'["vehicle"])
             PROVE  /\ log'["vehicle"][i].state = "EXECUTING" =>
                          Comes(Vehicle[i].cmd, "ACKNOWLEDGED", i - 1)'
                    /\ log'["vehicle"][i].state = "COMPLETED" =>
                          Comes(Vehicle[i].cmd, "EXECUTING", i - 1)'
  BY DEF InTurn, Vehicle
<1>1. PICK x \in Messages : /\ x = log'["vehicle"][i]
                            /\ i <= last => x = log["vehicle"][i]
                            /\ i > last => x = m
  <2>1. CASE i <= last
    <3>1. i \in 1 .. last /\ log'["vehicle"][i] = log["vehicle"][i]
      BY <1>0, <2>1 DEF Extended
    <3>2. log["vehicle"] \in Seq(Messages)
      BY ReadParts
    <3> QED
      BY <1>0, <2>1, <3>1, <3>2
  <2>2. CASE i > last
    BY <1>0, <2>2
  <2> QED
    BY <1>0, <2>1, <2>2
<1>2. PICK c \in Commands : c = x.cmd
  BY DEF Messages
<1>3. ASSUME NEW s, NEW t, x.state = t,
             \/ t = "EXECUTING" /\ s = "ACKNOWLEDGED"
             \/ t = "COMPLETED" /\ s = "EXECUTING"
      PROVE  Comes(c, s, i - 1)'
  <2>1. CASE i <= last
    <3>1. i \in 1 .. Len(Vehicle) /\ Vehicle[i] = x
      BY <1>0, <1>1, <2>1 DEF Vehicle
    <3>2. Comes(c, s, i - 1)
      BY <1>2, <1>3, <3>1 DEF InTurn
    <3>3. i - 1 \in Nat /\ i - 1 <= Len(Vehicle)
      BY <1>0, <2>1
    <3> QED
      BY <3>2, <3>3, ComesKept
  <2>2. CASE i > last
    <3>1. Comes(c, s, Len(Vehicle))
      <4>1. CASE t = "EXECUTING"
        <5>1. "ACK" \in durable[c] /\ s = "ACKNOWLEDGED" /\ StateOf("ACK") = "ACKNOWLEDGED"
          BY <1>1, <1>2, <1>3, <2>2, <4>1 DEF StateOf
        <5> QED
          BY <5>1 DEF Underway
      <4>2. CASE t = "COMPLETED"
        <5>1. "EXECUTING" \in durable[c] /\ s = "EXECUTING" /\ StateOf("EXECUTING") = "EXECUTING"
          BY <1>1, <1>2, <1>3, <2>2, <4>2 DEF StateOf
        <5> QED
          BY <5>1 DEF Underway
      <4> QED
        BY <1>3, <4>1, <4>2
    <3>2. i - 1 \in Nat /\ last <= i - 1 /\ last <= Len(Vehicle)
      BY <1>0, <2>2
    <3> QED
      BY <1>0, <3>1, <3>2, ComesKept
  <2> QED
    BY <1>0, <2>1, <2>2
<1> QED
  BY <1>1, <1>2, <1>3 DEF Vehicle

\* Comes of what was stored before, and of the record of this step.
LEMMA UnderwayExtended ==
    ASSUME TInv, Underway, Extended, UNCHANGED exec,
           \A c \in Commands : \A tag \in {"ACK", "EXECUTING"} \union Outcomes :
               tag \in durable'[c] =>
                   \/ tag \in durable[c]
                   \/ \E i \in 1 .. Len(log'["vehicle"]) :
                         /\ log'["vehicle"][i].cmd = c
                         /\ log'["vehicle"][i].state = StateOf(tag)
    PROVE  Underway'
<1> SUFFICES ASSUME NEW c \in Commands, NEW tag \in {"ACK", "EXECUTING"} \union Outcomes,
                    tag \in durable'[c]
             PROVE  Comes(c, StateOf(tag), Len(Vehicle))'
  BY DEF Underway
<1>1. Len(Vehicle) \in Nat /\ Len(log'["vehicle"]) \in Nat
      /\ Len(Vehicle) <= Len(log'["vehicle"])
  BY DEF Extended, Vehicle
<1>2. PICK k \in Nat : k = Len(log'["vehicle"])
  BY <1>1
<1>3. Comes(c, StateOf(tag), k)'
  <2>1. CASE tag \in durable[c]
    <3>1. Comes(c, StateOf(tag), Len(Vehicle))
      BY <2>1 DEF Underway
    <3> QED
      BY <1>1, <1>2, <3>1, ComesKept
  <2>2. CASE tag \notin durable[c]
    BY <1>2, <2>2 DEF Comes, Vehicle
  <2> QED
    BY <2>1, <2>2
<1> QED
  BY <1>2, <1>3 DEF Vehicle

LEMMA FlowSame ==
    ASSUME UNCHANGED <<durable, exec>>, log'["vehicle"] = log["vehicle"]
    PROVE  (InTurn => InTurn') /\ (Underway => Underway')
<1>1. Vehicle' = Vehicle
  BY DEF Vehicle
<1>2. \A c, s, n : Comes(c, s, n) => Comes(c, s, n)'
  BY <1>1 DEF Comes
<1>3. InTurn => InTurn'
  BY <1>1, <1>2 DEF InTurn
<1>4. Underway => Underway'
  BY <1>1, <1>2 DEF Underway
<1> QED
  BY <1>3, <1>4

\* A record through Ingest, in a run that stored what comes before it.
LEMMA IngestFeed ==
    ASSUME TInv, FeedInv, NEW c \in Commands, NEW tag \in Tags,
           Accepted(c, tag) \/ Refused(c, tag),
           UNCHANGED <<dlqStored, crashes, reading, rpart, engine, exec>>,
           tag = "EXECUTING" => "ACK" \in durable[c],
           tag = "COMPLETED" => "EXECUTING" \in durable[c],
           tag \in Outcomes => durable[c] \intersect Outcomes = {}
    PROVE  FeedInv'
<1>0. \A d \in Commands :
          /\ durable[d] \subseteq durable'[d]
          /\ \A t \in durable'[d] : t \in durable[d] \/ (d = c /\ t = tag)
  BY IngestAdds
<1>1. Keeps /\ (Calm' <=> Calm)
  BY <1>0 DEF Keeps, Calm
<1>2. LogTrue /\ ExecTrue /\ InHand /\ OneOutcome
  BY DEF FeedInv
<1>3. OneOutcome'
  <2> SUFFICES ASSUME NEW d \in Commands, NEW s \in durable'[d] \intersect Outcomes,
                      NEW t \in durable'[d] \intersect Outcomes
               PROVE  s = t
    BY DEF OneOutcome
  <2>1. CASE d = c /\ tag \in Outcomes
    BY <1>0, <2>1
  <2>2. CASE ~(d = c /\ tag \in Outcomes)
    <3>1. s \in durable[d] \intersect Outcomes /\ t \in durable[d] \intersect Outcomes
      BY <1>0, <2>2
    <3> QED
      BY <1>2, <3>1 DEF OneOutcome
  <2> QED
    BY <2>1, <2>2
<1>4. ExecTrue'
  BY <1>1, <1>2, ExecTrueSame
<1>5. CASE Accepted(c, tag)
  <2> DEFINE m == Message(c, tag)
             p == Partition(tag)
  <2>1. /\ m \in Messages /\ p \in Partitions /\ Publish(p, m)
        /\ m.cmd = c /\ tag \in durable'[c]
    BY <1>5, MessageTyped, PartitionTyped, RunParts DEF Accepted, Message
  <2>2. Truthful(m)'
    <3>1. CASE tag \in CommandTags
      BY <3>1 DEF Truthful, Message, StateOf, CommandTags
    <3>2. CASE tag \notin CommandTags
      <4>1. m.kind = "event" /\ m.cmd = c
        BY <3>2 DEF Message
      <4>2. \/ m.state \in {"", "SENT", "ACKNOWLEDGED", "EXECUTING"}
            \/ m.state \in Outcomes /\ m.state = tag
        BY <3>2 DEF Tags, CommandTags, Message, StateOf, Outcomes
      <4>3. Said(c, m.state)'
        BY <2>1, <4>2 DEF Said, Heard, Outcomes
      <4> QED
        BY <4>1, <4>3 DEF Truthful
    <3> QED
      BY <3>1, <3>2
  <2>3. \/ p = "vehicle" /\ tag \notin CommandTags
        \/ p = "ground" /\ tag \in CommandTags
    BY DEF Partition
  <2>4. /\ tag \in {"ACK", "EXECUTING"} \union Outcomes =>
               tag \notin CommandTags /\ m.state = StateOf(tag)
        /\ m.state = "EXECUTING" => tag = "EXECUTING"
        /\ m.state = "COMPLETED" => tag = "COMPLETED"
    BY DEF Tags, CommandTags, Message, StateOf, Outcomes
  <2> HIDE DEF m, p
  <2>5. LogTrue'
    BY <1>1, <1>2, <2>1, <2>2, LogTruePublished
  <2>6. InHand'
    BY <1>2, <2>1, InHandKept
  <2>7. ASSUME Calm PROVE InTurn' /\ Underway'
    <3>1. InTurn /\ Underway
      BY <2>7 DEF FeedInv
    <3>2. /\ Extended
          /\ \A i \in 1 .. Len(log'["vehicle"]) :
                i > Len(log["vehicle"]) => log'["vehicle"][i] = m
          /\ p = "vehicle" => \E i \in 1 .. Len(log'["vehicle"]) : log'["vehicle"][i] = m
      <4>1. CASE p = "vehicle"
        <5>1. /\ Len(log["vehicle"]) \in Nat /\ Len(log'["vehicle"]) \in Nat
              /\ Len(log'["vehicle"]) > Len(log["vehicle"])
          BY <2>1, <2>7, <4>1, PublishedIs
        <5>2. Len(log'["vehicle"]) \in 1 .. Len(log'["vehicle"])
          BY <5>1
        <5> QED
          BY <2>1, <4>1, <5>1, <5>2, PublishedIs DEF Extended
      <4>2. CASE p # "vehicle"
        <5>1. log'["vehicle"] = log["vehicle"] /\ log["vehicle"] \in Seq(Messages)
          BY <2>1, <4>2, PublishedIs, ReadParts
        <5> QED
          BY <4>2, <5>1 DEF Extended
      <4> QED
        BY <4>1, <4>2
    <3>3. InTurn'
      BY <2>1, <2>4, <3>1, <3>2, InTurnExtended
    <3>4. ASSUME NEW d \in Commands, NEW t \in {"ACK", "EXECUTING"} \union Outcomes,
                 t \in durable'[d], t \notin durable[d]
          PROVE  \E i \in 1 .. Len(log'["vehicle"]) :
                    log'["vehicle"][i].cmd = d /\ log'["vehicle"][i].state = StateOf(t)
      <4>1. d = c /\ t = tag
        BY <1>0, <3>4
      <4> QED
        BY <2>1, <2>3, <2>4, <3>2, <4>1
    <3>5. Underway'
      BY <3>1, <3>2, <3>4, UnderwayExtended
    <3> QED
      BY <3>3, <3>5
  <2> QED
    BY <1>1, <1>3, <1>4, <2>5, <2>6, <2>7 DEF FeedInv
<1>6. CASE Refused(c, tag)
  <2>1. UNCHANGED log /\ (Calm => UNCHANGED durable)
    BY <1>6 DEF Refused, Calm
  <2>2. LogTrue' /\ InHand'
    BY <1>1, <1>2, <2>1, LogTrueSame, InHandKept
  <2> QED
    BY <1>1, <1>3, <1>4, <2>1, <2>2, FlowSame DEF FeedInv
<1> QED
  BY <1>5, <1>6

\* A dead-letter row and its event, which say what a record says if all is calm.
LEMMA PersistFeed ==
    ASSUME TInv, FeedInv, NEW c \in Commands, NEW e \in Entries, PersistEntry(c, e),
           e.state # "none", Calm /\ e.exec # "" => e.exec \in durable[c],
           UNCHANGED <<durable, crashes, reading, rpart, engine, exec>>
    PROVE  FeedInv'
<1> DEFINE m == [cmd |-> c, kind |-> "event", state |-> e.exec]
<1>0. /\ m \in Messages /\ "ground" \in Partitions
      /\ e # NoEntry /\ e.exec \in {"", "FAILED", "TIMEOUT"}
  <2>1. e.exec \in {"", "FAILED", "TIMEOUT"} /\ e # NoEntry
    <3>1. e.exec \in {"", "FAILED", "TIMEOUT"}
      BY DEF Entries
    <3>2. NoEntry.state = "none"
      BY DEF NoEntry
    <3> QED
      BY <3>1, <3>2
  <2>2. m \in Messages
    BY <2>1 DEF Messages, Lifecycles, ExecutionStates, Terminal
  <2> QED
    BY <2>1, <2>2 DEF Partitions
<1>1. /\ Publish("ground", m) \/ UNCHANGED log
      /\ dlqStored' = [dlqStored EXCEPT ![c] = e] \/ (UNCHANGED dlqStored /\ UNCHANGED log)
  BY DEF PersistEntry
<1>2. Keeps /\ (Calm' <=> Calm)
  BY <1>0, <1>1, RunParts DEF Keeps, Calm
<1>3. LogTrue /\ ExecTrue /\ InHand /\ OneOutcome
  BY DEF FeedInv
<1>4. OneOutcome'
  BY <1>3 DEF OneOutcome
<1>5. ExecTrue'
  BY <1>2, <1>3, ExecTrueSame
<1>6. InHand'
  BY <1>0, <1>1, <1>3, InHandKept
<1>7. LogTrue'
  <2>1. CASE UNCHANGED log
    BY <1>2, <1>3, <2>1, LogTrueSame
  <2>2. CASE ~UNCHANGED log
    <3>1. Publish("ground", m) /\ dlqStored'[c] # NoEntry
      BY <1>0, <1>1, <2>2, RunParts
    <3>2. Said(c, e.exec)'
      BY <1>0, <1>2, <3>1 DEF Said, Heard, Outcomes
    <3>3. Truthful(m)'
      BY <3>2 DEF Truthful
    <3> QED
      BY <1>0, <1>2, <1>3, <3>1, <3>3, LogTruePublished
  <2> QED
    BY <2>1, <2>2
<1>8. log'["vehicle"] = log["vehicle"]
  BY <1>0, <1>1, PublishedIs, ReadParts
<1>9. (InTurn => InTurn') /\ (Underway => Underway')
  BY <1>8, FlowSame
<1> QED
  BY <1>2, <1>4, <1>5, <1>6, <1>7, <1>9 DEF FeedInv
-----------------------------------------------------------------------------
(* The consumer *)

\* Nothing that is said, stored or on its way changes.
LEMMA SameFeed ==
    ASSUME TInv, FeedInv, UNCHANGED <<durable, dlqStored, crashes, exec, log>>,
           EngineOK', InHand'
    PROVE  FeedInv'
<1>1. Keeps /\ (Calm' <=> Calm)
  BY DEF Keeps, Calm
<1>2. LogTrue /\ ExecTrue /\ OneOutcome
  BY DEF FeedInv
<1>3. LogTrue'
  BY <1>1, <1>2, LogTrueSame
<1>4. ExecTrue'
  <2> SUFFICES ASSUME NEW c \in Commands PROVE Said(c, exec[c])'
    BY DEF ExecTrue
  <2>1. PICK e : e = exec[c]
    OBVIOUS
  <2>2. Said(c, e)
    BY <1>2, <2>1 DEF ExecTrue
  <2>3. Said(c, e)'
    BY <1>1, <2>2, SaidKept
  <2> QED
    BY <2>1, <2>3
<1>5. OneOutcome'
  BY <1>2 DEF OneOutcome
<1> QED
  BY <1>1, <1>3, <1>4, <1>5, FlowSame DEF FeedInv

\* What the read model shows after one more message that it may be told.
Shown(m) ==
    /\ \A c \in Commands : c # m.cmd => exec'[c] = exec[c]
    /\ m.kind = "command" => exec' = exec
    /\ m.kind = "event" => exec'[m.cmd] = Told(exec[m.cmd], m.state)

LEMMA ExecTrueShown ==
    ASSUME TInv, ExecTrue, Keeps, NEW m \in Messages, Truthful(m), Shown(m),
           EngineOK'
    PROVE  ExecTrue'
<1> SUFFICES ASSUME NEW c \in Commands PROVE Said(c, exec[c])'
  BY DEF ExecTrue
<1>1. PICK e : e = exec'[c]
  OBVIOUS
<1>2. Said(c, exec[c])
  BY DEF ExecTrue
<1>3. Said(c, e)
  <2>1. CASE e = exec[c]
    BY <1>2, <2>1
  <2>2. CASE e # exec[c]
    <3>1. c = m.cmd /\ m.kind = "event" /\ e = Told(exec[c], m.state)
      BY <1>1, <2>2 DEF Shown, Messages
    <3>2. e = m.state
      BY <2>2, <3>1 DEF Told
    <3> QED
      BY <3>1, <3>2 DEF Truthful
  <2> QED
    BY <2>1, <2>2
<1>4. Said(c, e)'
  BY <1>3, SaidKept
<1> QED
  BY <1>1, <1>4

LEMMA BeyondKept ==
    ASSUME ExecTrue, NEW m \in Messages, Truthful(m), Shown(m), NEW c \in Commands,
           NEW s \in {"ACKNOWLEDGED", "EXECUTING"} \union Outcomes, exec[c] \in Beyond(s)
    PROVE  exec'[c] \in Beyond(s)
<1>1. CASE exec'[c] = exec[c]
  BY <1>1
<1>2. CASE exec'[c] # exec[c]
  <2>1. c = m.cmd /\ m.kind = "event" /\ exec'[c] = Told(exec[c], m.state)
    BY <1>2 DEF Shown, Messages
  <2>2. m.state \in Heard /\ exec[c] \in Heard
    BY <2>1 DEF Truthful, ExecTrue, Said
  <2>3. s \in Outcomes => exec[c] \in Outcomes
    BY DEF Beyond, Outcomes
  <2> QED
    BY <1>2, <2>1, <2>2, <2>3, ToldInTurn
<1> QED
  BY <1>1, <1>2

\* The head of the vehicle's log, taken off in its turn, arrives.
LEMMA HeadArrives ==
    ASSUME TInv, FeedInv, Calm, ExecTrue', OneOutcome', Calm', UNCHANGED durable,
           log["vehicle"] # <<>>, NEW m \in Messages, m = Next1("vehicle"), Truthful(m), Shown(m),
           m.state \in {"ACKNOWLEDGED", "EXECUTING"} \union Outcomes
    PROVE  exec'[m.cmd] \in Beyond(m.state)
<1>1. m.cmd \in Commands
  BY DEF Messages
<1>2. m.kind = "event"
  BY DEF Messages, Truthful, CommandTags, Outcomes
<1>3. exec'[m.cmd] = Told(exec[m.cmd], m.state) /\ Said(m.cmd, m.state)
  BY <1>2 DEF Shown, Truthful
<1>4. m.state \in Heard /\ exec[m.cmd] \in Heard
  BY <1>1, <1>3 DEF FeedInv, ExecTrue, Said
<1>5. /\ m.state = "EXECUTING" => exec[m.cmd] \in Beyond("ACKNOWLEDGED")
      /\ m.state = "COMPLETED" => exec[m.cmd] \in Beyond("EXECUTING")
  <2>1. Vehicle = log["vehicle"] /\ Vehicle[1] = m /\ 1 \in 1 .. Len(Vehicle)
    <3>1. log["vehicle"] \in Seq(Messages)
      BY ReadParts
    <3> QED
      BY <3>1 DEF Vehicle, Next1
  <2>2. \A s : Comes(m.cmd, s, 1 - 1) => exec[m.cmd] \in Beyond(s)
    BY DEF Comes
  <2> QED
    BY <2>1, <2>2 DEF FeedInv, InTurn
<1>6. CASE m.state \in {"ACKNOWLEDGED", "EXECUTING"}
  BY <1>3, <1>4, <1>5, <1>6, ToldInTurn
<1>7. CASE m.state \in Outcomes
  <2>1. exec'[m.cmd] \in Outcomes
    BY <1>3, <1>4, <1>5, <1>7, ToldInTurn DEF Outcomes
  <2>2. exec'[m.cmd] \in durable'[m.cmd]
    BY <1>1, <2>1 DEF ExecTrue, Said, Outcomes
  <2>3. m.state \in durable'[m.cmd]
    BY <1>3, <1>7 DEF Said, Outcomes
  <2>4. exec'[m.cmd] = m.state
    BY <1>1, <1>7, <2>1, <2>2, <2>3 DEF OneOutcome
  <2> QED
    BY <1>7, <2>4 DEF Beyond, Outcomes
<1> QED
  BY <1>6, <1>7

\* A message taken off its partition.
Dropped(p) == log[p] # <<>> /\ log' = [log EXCEPT ![p] = Tail(@)]

LEMMA DroppedIs ==
    ASSUME TInv, NEW p \in Partitions, Dropped(p)
    PROVE  /\ \A q \in Partitions : q # p => log'[q] = log[q]
           /\ Len(log[p]) \in Nat \ {0} /\ Len(log'[p]) = Len(log[p]) - 1
           /\ \A i \in 1 .. Len(log'[p]) : log'[p][i] = log[p][i + 1]
           /\ \A i \in 1 .. Len(log[p]) : log[p][i] \in Messages
           /\ Next1(p) = log[p][1]
<1>1. log[p] \in Seq(Messages) /\ log \in [Partitions -> Seq(Messages)] /\ log[p] # <<>>
  BY ReadParts DEF Dropped
<1>2. log'[p] = Tail(log[p]) /\ \A q \in Partitions : q # p => log'[q] = log[q]
  BY <1>1 DEF Dropped
<1> QED
  BY <1>1, <1>2 DEF Next1

LEMMA FlowDropped ==
    ASSUME TInv, FeedInv, Calm, ExecTrue', OneOutcome', Calm', UNCHANGED durable,
           NEW p \in Partitions, Dropped(p), NEW m \in Messages, m = Next1(p), Truthful(m), Shown(m)
    PROVE  InTurn' /\ Underway'
<1> DEFINE Feedback == {"ACKNOWLEDGED", "EXECUTING"} \union Outcomes
<1>0. ExecTrue /\ InTurn /\ Underway
  BY DEF FeedInv
<1>1. \A c \in Commands, s \in Feedback : exec[c] \in Beyond(s) => exec'[c] \in Beyond(s)
  BY <1>0, BeyondKept
<1>2. \A tag \in {"ACK", "EXECUTING"} \union Outcomes : StateOf(tag) \in Feedback
  BY DEF StateOf, Outcomes
<1>3. CASE p # "vehicle"
  <2>1. Vehicle' = Vehicle
    BY <1>3, DroppedIs DEF Vehicle, Partitions
  <2>2. Len(Vehicle) \in Nat /\ \A i \in 1 .. Len(Vehicle) : Vehicle[i].cmd \in Commands
    <3>1. log["vehicle"] \in Seq(Messages)
      BY ReadParts
    <3>2. \A i \in 1 .. Len(log["vehicle"]) : log["vehicle"][i] \in Messages
      BY <3>1
    <3>3. \A i \in 1 .. Len(log["vehicle"]) : log["vehicle"][i].cmd \in Commands
      BY <3>2 DEF Messages
    <3> QED
      BY <3>1, <3>3 DEF Vehicle
  <2>3. \A c \in Commands, s \in Feedback, n \in Nat : Comes(c, s, n) => Comes(c, s, n)'
    BY <1>1, <2>1 DEF Comes
  <2>4. InTurn'
    BY <1>0, <2>1, <2>2, <2>3 DEF InTurn
  <2>5. Underway'
    BY <1>0, <1>2, <2>1, <2>2, <2>3 DEF Underway
  <2> QED
    BY <2>4, <2>5
<1>4. CASE p = "vehicle"
  <2> DEFINE before == log["vehicle"]
             after  == log'["vehicle"]
  <2>1. /\ Len(before) \in Nat \ {0} /\ Len(after) = Len(before) - 1
        /\ \A i \in 1 .. Len(after) : after[i] = before[i + 1]
        /\ \A i \in 1 .. Len(before) : before[i] \in Messages
        /\ m = before[1]
    BY <1>4, DroppedIs
  <2>2. Vehicle = before /\ Vehicle' = after
    BY DEF Vehicle
  <2>3. m.state \in Feedback => exec'[m.cmd] \in Beyond(m.state)
    <3>1. log["vehicle"] # <<>>
      BY <1>4 DEF Dropped
    <3> QED
      BY <1>4, <3>1, HeadArrives
  <2> HIDE DEF before, after, Feedback
  <2>4. ASSUME NEW c \in Commands, NEW s \in Feedback, NEW n \in 1 .. Len(before), Comes(c, s, n)
        PROVE  Comes(c, s, n - 1)'
    <3>1. CASE exec[c] \in Beyond(s)
      BY <1>1, <3>1 DEF Comes
    <3>2. CASE \E j \in 1 .. n : before[j].cmd = c /\ before[j].state = s
      <4>1. PICK j \in 1 .. n : before[j].cmd = c /\ before[j].state = s
        BY <3>2
      <4>2. CASE j = 1
        BY <2>1, <2>3, <4>1, <4>2 DEF Comes
      <4>3. CASE j # 1
        <5>1. j - 1 \in 1 .. (n - 1) /\ j - 1 \in 1 .. Len(after) /\ (j - 1) + 1 = j
          BY <2>1, <4>3
        <5>2. after[j - 1] = before[j]
          BY <2>1, <5>1
        <5> QED
          BY <2>2, <4>1, <5>1, <5>2 DEF Comes
      <4> QED
        BY <4>2, <4>3
    <3> QED
      BY <2>2, <2>4, <3>1, <3>2 DEF Comes
  <2>5. InTurn'
    <3> SUFFICES ASSUME NEW i \in 1 .. Len(after)
                 PROVE  /\ after[i].state = "EXECUTING" =>
                              Comes(Vehicle[i].cmd, "ACKNOWLEDGED", i - 1)'
                        /\ after[i].state = "COMPLETED" =>
                              Comes(Vehicle[i].cmd, "EXECUTING", i - 1)'
      BY <2>2 DEF InTurn
    <3>1. /\ i + 1 \in 1 .. Len(before) /\ (i + 1) - 1 = i /\ i \in 1 .. Len(before)
          /\ i \in Nat
      BY <2>1
    <3>2. after[i] = before[i + 1] /\ after[i].cmd \in Commands
      BY <2>1, <3>1 DEF Messages
    <3>3. PICK x : x = after[i]
      OBVIOUS
    <3>4. /\ x.state = "EXECUTING" => Comes(x.cmd, "ACKNOWLEDGED", i)
          /\ x.state = "COMPLETED" => Comes(x.cmd, "EXECUTING", i)
      BY <1>0, <2>2, <3>1, <3>2, <3>3 DEF InTurn
    <3>5. {"ACKNOWLEDGED", "EXECUTING"} \subseteq Feedback
      BY DEF Feedback
    <3>6. /\ x.state = "EXECUTING" => Comes(x.cmd, "ACKNOWLEDGED", i - 1)'
          /\ x.state = "COMPLETED" => Comes(x.cmd, "EXECUTING", i - 1)'
      BY <2>4, <3>1, <3>2, <3>3, <3>4, <3>5
    <3> QED
      BY <2>2, <3>3, <3>6
  <2>6. Underway'
    <3> SUFFICES ASSUME NEW c \in Commands, NEW tag \in {"ACK", "EXECUTING"} \union Outcomes,
                        tag \in durable'[c]
                 PROVE  Comes(c, StateOf(tag), Len(Vehicle))'
      BY DEF Underway
    <3>1. PICK s \in Feedback : s = StateOf(tag)
      BY <1>2
    <3>2. Comes(c, s, Len(before)) /\ Len(before) \in 1 .. Len(before)
      BY <1>0, <2>1, <2>2, <3>1 DEF Underway
    <3>3. PICK n : n = Len(before) - 1
      OBVIOUS
    <3>4. Comes(c, s, n)'
      BY <2>4, <3>2, <3>3
    <3>5. Len(Vehicle)' = n
      BY <2>1, <2>2, <3>3
    <3> QED
      BY <3>1, <3>4, <3>5
  <2> QED
    BY <2>5, <2>6
<1> QED
  BY <1>3, <1>4

LEMMA DroppedFeed ==
    ASSUME TInv, FeedInv, UNCHANGED <<durable, dlqStored, crashes>>, NEW p \in Partitions,
           Dropped(p), Shown(Next1(p)), InHand',
           EngineOK'
    PROVE  FeedInv'
<1>1. Keeps /\ (Calm' <=> Calm)
  BY DEF Keeps, Calm
<1>2. LogTrue /\ ExecTrue /\ OneOutcome
  BY DEF FeedInv
<1>3. PICK m \in Messages : m = Next1(p) /\ Truthful(m)
  <2>1. 1 \in 1 .. Len(log[p]) /\ Next1(p) = log[p][1] /\ log[p][1] \in Messages
    <3>1. Len(log[p]) \in Nat \ {0}
      BY DroppedIs
    <3>2. 1 \in 1 .. Len(log[p])
      BY <3>1
    <3> QED
      BY <3>2, DroppedIs
  <2>2. Truthful(log[p][1])
    BY <1>2, <2>1 DEF LogTrue
  <2> QED
    BY <2>1, <2>2
<1>4. LogTrue'
  <2>1. ASSUME NEW q \in Partitions, NEW i \in 1 .. Len(log'[q])
        PROVE  \E j \in 1 .. Len(log[q]) : log'[q][i] = log[q][j]
    <3>1. CASE q # p
      BY <3>1, DroppedIs
    <3>2. CASE q = p
      <4>1. /\ Len(log[p]) \in Nat \ {0} /\ Len(log'[p]) = Len(log[p]) - 1
            /\ \A j \in 1 .. Len(log'[p]) : log'[p][j] = log[p][j + 1]
        BY DroppedIs
      <4>2. i + 1 \in 1 .. Len(log[p])
        <5>1. PICK n \in Nat \ {0} : n = Len(log[p])
          BY <4>1
        <5>2. i \in 1 .. (n - 1)
          BY <3>2, <4>1, <5>1
        <5>3. i + 1 \in 1 .. n
          BY <5>2
        <5> QED
          BY <5>1, <5>3
      <4>3. log'[p][i] = log[p][i + 1]
        BY <3>2, <4>1
      <4> QED
        BY <3>2, <4>2, <4>3
    <3> QED
      BY <3>1, <3>2
  <2> QED
    BY <1>1, <1>2, <2>1, LogTrueKept
<1>5. ExecTrue'
  BY <1>1, <1>2, <1>3, ExecTrueShown
<1>6. OneOutcome'
  BY <1>2 DEF OneOutcome
<1>7. Calm => InTurn' /\ Underway'
  BY <1>1, <1>3, <1>5, <1>6, FlowDropped
<1> QED
  BY <1>1, <1>4, <1>5, <1>6, <1>7 DEF FeedInv

LEMMA StillFeed ==
    ASSUME TInv, FeedInv,
           UNCHANGED <<durable, dlqStored, crashes, exec, log, engine, reading, rpart>>
    PROVE  FeedInv'
<1>1. EngineOK' /\ InHand'
  BY DEF FeedInv, ExecTrue, EngineOK, InHand, Next1
<1> QED
  BY <1>1, SameFeed

LEMMA ConsumeFeed == ASSUME TInv, FeedInv, NEW p \in Partitions, Consume(p) PROVE FeedInv'
<1>1. UNCHANGED <<durable, dlqStored, crashes>> /\ reading = "fetch" /\ log[p] # <<>>
  BY DEF Consume, worldVars
<1>2. PICK m \in Messages : m = Next1(p) /\ Truthful(m)
  <2>1. log[p] \in Seq(Messages)
    BY ReadParts
  <2>2. 1 \in 1 .. Len(log[p]) /\ Next1(p) = log[p][1] /\ log[p][1] \in Messages
    BY <1>1, <2>1 DEF Next1
  <2> QED
    BY <2>2 DEF FeedInv, LogTrue
<1>3. Shown(m) /\ EngineOK' /\ (m.kind = "command" => exec' = exec)
  BY <1>2, RoutedTells DEF Consume, FeedInv, Shown
<1>4. CASE IsForOrchestrator(m)
  <2>1. log' = log /\ rpart' = p /\ m.kind = "command"
    BY <1>2, <1>4 DEF Consume, IsForOrchestrator
  <2>2. InHand'
    BY <1>2, <2>1 DEF InHand, Next1
  <2> QED
    BY <1>1, <1>3, <2>1, <2>2, SameFeed
<1>5. CASE ~IsForOrchestrator(m)
  <2>1. log' = [log EXCEPT ![p] = Tail(@)] /\ reading' = reading
    BY <1>2, <1>5 DEF Consume
  <2>2. Dropped(p) /\ InHand'
    BY <1>1, <2>1 DEF Dropped, InHand
  <2> QED
    BY <1>1, <1>2, <1>3, <2>2, DroppedFeed
<1> QED
  BY <1>4, <1>5

LEMMA SubmitFeed ==
    ASSUME TInv, FeedInv, ConsumerMark \/ ConsumerSend \/ ConsumerCommit PROVE FeedInv'
<1>1. /\ UNCHANGED <<durable, dlqStored, crashes, exec, engine, rpart>> /\ reading # "fetch"
      /\ InHand /\ EngineOK'
  BY DEF ConsumerMark, ConsumerSend, ConsumerCommit, worldVars, FeedInv, ExecTrue, EngineOK
<1>2. CASE ConsumerMark \/ ConsumerSend
  <2>1. UNCHANGED log
    BY <1>2 DEF ConsumerMark, ConsumerSend
  <2>2. InHand'
    BY <1>1, <2>1 DEF InHand, Next1
  <2> QED
    BY <1>1, <2>1, <2>2, SameFeed
<1>3. CASE ConsumerCommit
  <2>1. rpart \in Partitions /\ Dropped(rpart)
    BY <1>1, <1>3, ReadParts DEF ConsumerCommit, Dropped
  <2>2. InHand'
    BY <1>3 DEF ConsumerCommit, InHand
  <2>3. Shown(Next1(rpart))
    BY <1>1 DEF InHand, Shown
  <2> QED
    BY <1>1, <2>1, <2>2, <2>3, DroppedFeed
<1> QED
  BY <1>2, <1>3

LEMMA CrashFeed == ASSUME TInv, FeedInv, Crash PROVE FeedInv'
<1>1. /\ UNCHANGED <<durable, dlqStored, log>> /\ crashes' = crashes + 1 /\ reading' = "fetch"
      /\ exec' = [c \in Commands |-> ""] /\ engine' = [c \in Commands |-> ""]
  BY DEF Crash
<1>2. ~Calm'
  <2>1. crashes' # 0
    <3>1. crashes \in Nat /\ crashes' = crashes + 1
      BY <1>1, ReadParts
    <3> QED
      BY <3>1
  <2> QED
    BY <2>1 DEF Calm
<1>3. Keeps
  BY <1>1, <1>2 DEF Keeps
<1>4. LogTrue'
  BY <1>1, <1>3, LogTrueSame DEF FeedInv
<1>5. ExecTrue'
  BY <1>1 DEF ExecTrue, EngineOK, Said, Heard
<1>6. OneOutcome' /\ InHand'
  BY <1>1 DEF FeedInv, OneOutcome, InHand
<1> QED
  BY <1>2, <1>4, <1>5, <1>6 DEF FeedInv
-----------------------------------------------------------------------------
(* The runs and the dead letters *)

LEMMA StoredKept ==
    ASSUME RunsStore, NEW v \in Workers, wpc[v] # "idle", wpc'[v] = wpc[v], wcmd'[v] = wcmd[v],
           durable[wcmd[v]] \subseteq durable'[wcmd[v]],
           wpc[v] \in RunPcs \ {"telemetry"} =>
               durable'[wcmd[v]] \intersect Outcomes \subseteq durable[wcmd[v]]
    PROVE  Stored(wcmd[v], wpc[v])'
<1>1. Stored(wcmd[v], wpc[v])
  BY DEF RunsStore
<1> QED
  BY <1>1 DEF Stored

\* The records of a worker's step are of its own command, its outcome of its own run.
LEMMA RunsStoreKept ==
    ASSUME TInv, RunInv, RunsStore, NEW w \in Workers, wpc[w] # "idle", NEW tag \in Tags,
           Accepted(wcmd[w], tag) \/ Refused(wcmd[w], tag), tag \in Outcomes => wpc[w] \in RunPcs,
           NEW pc, wpc' = [wpc EXCEPT ![w] = pc], UNCHANGED wcmd,
           pc # "idle" => Stored(wcmd[w], pc)'
    PROVE  RunsStore'
<1>1. wcmd[w] \in Commands /\ wpc'[w] = pc /\ \A v \in Workers \ {w} : wpc'[v] = wpc[v]
  BY WorkerParts
<1>2. \A d \in Commands :
          /\ durable[d] \subseteq durable'[d]
          /\ \A t \in durable'[d] : t \in durable[d] \/ (d = wcmd[w] /\ t = tag)
  BY <1>1, IngestAdds
<1> SUFFICES ASSUME NEW v \in Workers, wpc'[v] # "idle" PROVE Stored(wcmd[v], wpc[v])'
  BY DEF RunsStore
<1>3. CASE v = w
  <2>1. PICK c, p : c = wcmd[w] /\ p = pc /\ c = wcmd'[v] /\ p = wpc'[v]
    BY <1>1, <1>3
  <2>2. Stored(c, p)'
    BY <1>1, <1>3, <2>1
  <2> QED
    BY <2>1, <2>2
<1>4. CASE v # w
  <2>1. wpc[v] # "idle" /\ wpc'[v] = wpc[v] /\ wcmd[v] \in Commands
    BY <1>1, <1>4, WorkerParts
  <2>2. wpc[v] \in RunPcs /\ tag \in Outcomes => wcmd[v] # wcmd[w]
    BY <1>4 DEF RunInv, OwnRuns
  <2> QED
    BY <1>2, <2>1, <2>2, StoredKept
<1> QED
  BY <1>3, <1>4

\* No record of a run: the workers rely on what they relied on.
LEMMA RunsStoreQuiet ==
    ASSUME TInv, RunsStore,
           \A d \in Commands : durable[d] \subseteq durable'[d]
                               /\ durable'[d] \intersect Outcomes \subseteq durable[d],
           \A v \in Workers : \/ wpc'[v] = wpc[v] /\ wcmd'[v] = wcmd[v]
                              \/ wpc'[v] \in {"idle", "queued", "enqueue", "persist"}
    PROVE  RunsStore'
<1> SUFFICES ASSUME NEW v \in Workers, wpc'[v] # "idle" PROVE Stored(wcmd[v], wpc[v])'
  BY DEF RunsStore
<1>1. CASE wpc'[v] = wpc[v] /\ wcmd'[v] = wcmd[v]
  <2>1. wpc[v] # "idle" /\ wcmd[v] \in Commands
    BY <1>1, WorkerParts
  <2> QED
    BY <1>1, <2>1, StoredKept
<1>2. CASE wpc'[v] \in {"queued", "enqueue", "persist"}
  BY <1>2 DEF Stored, RunPcs
<1> QED
  BY <1>1, <1>2

LEMMA DeadLettersKept ==
    ASSUME DeadLettersTrue, Calm' => Calm, \A d \in Commands : durable[d] \subseteq durable'[d],
           \A v \in Workers : wpc[v] # "idle" => wcmd[v] \in Commands,
           \A v \in Workers : wpc'[v] \in {"enqueue", "persist"} =>
               \/ /\ wpc[v] \in {"enqueue", "persist"}
                  /\ wcmd'[v] = wcmd[v] /\ failure'[v] = failure[v]
               \/ Calm' => failure'[v] \in durable'[wcmd'[v]],
           \A c \in Commands : \/ dlq'[c].exec = dlq[c].exec
                               \/ Calm' => dlq'[c].exec \in durable'[c]
    PROVE  DeadLettersTrue'
<1> SUFFICES ASSUME Calm'
             PROVE  /\ \A w \in Workers : wpc'[w] \in {"enqueue", "persist"} =>
                                              failure'[w] \in durable'[wcmd'[w]]
                    /\ \A c \in Commands : dlq'[c].exec # "" => dlq'[c].exec \in durable'[c]
  BY DEF DeadLettersTrue
<1>1. Calm
  OBVIOUS
<1>2. ASSUME NEW w \in Workers, wpc'[w] \in {"enqueue", "persist"}
      PROVE  failure'[w] \in durable'[wcmd'[w]]
  <2>1. CASE /\ wpc[w] \in {"enqueue", "persist"}
             /\ wcmd'[w] = wcmd[w] /\ failure'[w] = failure[w]
    <3>1. failure[w] \in durable[wcmd[w]] /\ wcmd[w] \in Commands
      BY <1>1, <2>1 DEF DeadLettersTrue
    <3> QED
      BY <2>1, <3>1
  <2> QED
    BY <1>2, <2>1
<1>3. \A c \in Commands : dlq'[c].exec # "" => dlq'[c].exec \in durable'[c]
  BY <1>1 DEF DeadLettersTrue
<1> QED
  BY <1>2, <1>3
-----------------------------------------------------------------------------
LEMMA InitRead == Init => ReadInv
<1> SUFFICES ASSUME Init PROVE ReadInv
  OBVIOUS
<1>1. \A p \in Partitions : log[p] = <<>> /\ Len(log[p]) = 0
  BY DEF Init
<1>2. LogTrue
  BY <1>1 DEF LogTrue
<1>3. ExecTrue /\ InHand /\ OneOutcome
  BY DEF Init, ExecTrue, EngineOK, Said, Heard, InHand, OneOutcome
<1>4. InTurn /\ Underway
  <2>1. Len(Vehicle) = 0
    BY <1>1 DEF Vehicle, Partitions
  <2>2. InTurn
    BY <2>1 DEF InTurn
  <2>3. Underway
    BY DEF Init, Underway
  <2> QED
    BY <2>2, <2>3
<1>5. RunsStore /\ DeadLettersTrue
  BY DEF Init, RunsStore, DeadLettersTrue, NoEntry
<1> QED
  BY <1>2, <1>3, <1>4, <1>5 DEF ReadInv, FeedInv

LEMMA ReadMoves ==
    ASSUME TInv, ReadInv, Attach \/ Consumer PROVE ReadInv'
<1>1. /\ UNCHANGED worldVars /\ UNCHANGED workVars /\ UNCHANGED dlqVars
  BY DEF Attach, Consumer, Consume, ConsumerMark, ConsumerSend, ConsumerCommit
<1>2. UNCHANGED <<durable, crashes, wpc, wcmd, failure, dlq>>
  BY <1>1 DEF worldVars, workVars, dlqVars
<1>3. FeedInv'
  <2>1. CASE Attach
    <3>1. UNCHANGED <<durable, dlqStored, crashes, exec, log, engine, reading, rpart>>
      BY <2>1 DEF Attach, worldVars
    <3> QED
      BY <3>1, StillFeed DEF ReadInv
  <2>2. CASE Consumer
    BY <2>2, ConsumeFeed, SubmitFeed DEF Consumer, ReadInv
  <2> QED
    BY <2>1, <2>2
<1>4. RunsStore' /\ DeadLettersTrue'
  BY <1>2 DEF ReadInv, RunsStore, Stored, DeadLettersTrue, Calm
<1> QED
  BY <1>3, <1>4 DEF ReadInv

LEMMA CrashRead == ASSUME TInv, ReadInv, Crash PROVE ReadInv'
<1>1. FeedInv'
  BY CrashFeed DEF ReadInv
<1>2. RunsStore'
  BY DEF Crash, RunsStore
<1>3. DeadLettersTrue'
  <2>1. crashes \in Nat /\ crashes' = crashes + 1
    BY ReadParts DEF Crash
  <2>2. crashes' # 0
    BY <2>1
  <2> QED
    BY <2>2 DEF DeadLettersTrue, Calm
<1> QED
  BY <1>1, <1>2, <1>3 DEF ReadInv

LEMMA DispatchRead == ASSUME TInv, ReadInv, NEW c \in Commands, Dispatch(c) PROVE ReadInv'
<1>1. /\ Accepted(c, "RECEIVED") \/ Refused(c, "RECEIVED")
      /\ UNCHANGED <<dlqStored, crashes, reading, rpart, engine, exec, wpc, wcmd, failure, dlq>>
      /\ "RECEIVED" \in Tags /\ "RECEIVED" \notin Outcomes
  BY DEF Dispatch, readVars, workVars, dlqVars, Tags, Outcomes
<1>2. \A d \in Commands :
          /\ durable[d] \subseteq durable'[d]
          /\ \A t \in durable'[d] : t \in durable[d] \/ (d = c /\ t = "RECEIVED")
  BY <1>1, IngestAdds
<1>3. FeedInv'
  BY <1>1, IngestFeed DEF ReadInv
<1>4. RunsStore'
  BY <1>1, <1>2, RunsStoreQuiet DEF ReadInv
<1>5. DeadLettersTrue'
  BY <1>1, <1>2, WorkerParts, DeadLettersKept DEF ReadInv, Calm
<1> QED
  BY <1>3, <1>4, <1>5 DEF ReadInv

\* A worker that stores a record and goes on to pc.
LEMMA EmitRead ==
    ASSUME TInv, RunInv, ReadInv, NEW w \in Workers, NEW tag \in Tags,
           wpc[w] \in RunPcs \/ (wpc[w] = "queued" /\ tag = "QUEUED"),
           Accepted(wcmd[w], tag) \/ Refused(wcmd[w], tag),
           NEW pc, wpc' = [wpc EXCEPT ![w] = pc],
           UNCHANGED <<dlqStored, crashes, reading, rpart, engine, exec, wcmd, failure, dlq>>,
           tag = "EXECUTING" => wpc[w] = "executing",
           tag = "COMPLETED" => wpc[w] = "completed",
           tag \in Outcomes => wpc[w] \in RunPcs \ {"telemetry"},
           pc # "idle" => Stored(wcmd[w], pc)',
           pc # "persist",
           pc = "enqueue" => (Calm' => failure[w] \in durable'[wcmd[w]])
    PROVE  ReadInv'
<1>1. wpc[w] # "idle" /\ wcmd[w] \in Commands /\ Stored(wcmd[w], wpc[w])
  BY WorkerParts DEF RunPcs, ReadInv, RunsStore
<1>2. \A d \in Commands : durable[d] \subseteq durable'[d]
  BY <1>1, IngestAdds
<1>3. FeedInv'
  <2>1. /\ tag = "EXECUTING" => "ACK" \in durable[wcmd[w]]
        /\ tag = "COMPLETED" => "EXECUTING" \in durable[wcmd[w]]
        /\ tag \in Outcomes => durable[wcmd[w]] \intersect Outcomes = {}
    BY <1>1 DEF Stored
  <2> QED
    BY <1>1, <2>1, IngestFeed DEF ReadInv
<1>4. RunsStore'
  BY <1>1, RunsStoreKept DEF ReadInv
<1>5. DeadLettersTrue'
  <2>1. \A v \in Workers : wpc'[v] \in {"enqueue", "persist"} =>
            \/ /\ wpc[v] \in {"enqueue", "persist"}
               /\ wcmd'[v] = wcmd[v] /\ failure'[v] = failure[v]
            \/ Calm' => failure'[v] \in durable'[wcmd'[v]]
    <3> SUFFICES ASSUME NEW v \in Workers, wpc'[v] \in {"enqueue", "persist"}
                 PROVE  \/ /\ wpc[v] \in {"enqueue", "persist"}
                           /\ wcmd'[v] = wcmd[v] /\ failure'[v] = failure[v]
                        \/ Calm' => failure'[v] \in durable'[wcmd'[v]]
      OBVIOUS
    <3>1. CASE v = w
      <4>1. pc = "enqueue"
        BY <3>1, WorkerParts
      <4> QED
        BY <3>1, <4>1
    <3>2. CASE v # w
      BY <3>2, WorkerParts
    <3> QED
      BY <3>1, <3>2
  <2> QED
    BY <1>2, <2>1, WorkerParts, DeadLettersKept DEF ReadInv, Calm
<1> QED
  BY <1>3, <1>4, <1>5 DEF ReadInv

LEMMA EmitActionsRead ==
    ASSUME TInv, RunInv, ReadInv, NEW w \in Workers,
           \/ EmitQueued(w) \/ EmitSent(w) \/ EmitAck(w) \/ EmitExecuting(w) \/ EmitCompleted(w)
    PROVE  ReadInv'
<1>1. PICK pc \in {"queued", "sent", "ack", "executing", "completed"},
           tag \in Tags, next \in RunPcs :
          /\ EmitOrGiveUp(w, pc, tag, next)
          /\ pc = "queued" => tag = "QUEUED" /\ next = "sent"
          /\ pc = "sent" => tag = "SENT" /\ next = "attempt"
          /\ pc = "ack" => tag = "ACK" /\ next = "executing"
          /\ pc = "executing" => tag = "EXECUTING" /\ next = "completed"
          /\ pc = "completed" => tag = "COMPLETED" /\ next = "telemetry"
  <2>1. /\ {"QUEUED", "SENT", "ACK", "EXECUTING", "COMPLETED"} \subseteq Tags
        /\ {"sent", "attempt", "executing", "completed", "telemetry"} \subseteq RunPcs
    BY DEF Tags, RunPcs
  <2> QED
    BY <2>1 DEF EmitQueued, EmitSent, EmitAck, EmitExecuting, EmitCompleted
<1>2. wpc[w] = pc /\ pc # "idle" /\ wcmd[w] \in Commands /\ Stored(wcmd[w], pc)
  BY <1>1, WorkerParts DEF EmitOrGiveUp, ReadInv, RunsStore
<1>3. UNCHANGED <<dlqStored, crashes, reading, rpart, engine, exec, wcmd, failure, dlq>>
  BY <1>1 DEF EmitOrGiveUp, readVars, dlqVars
<1>4. /\ wpc[w] \in RunPcs \/ (wpc[w] = "queued" /\ tag = "QUEUED")
      /\ tag = "EXECUTING" => wpc[w] = "executing"
      /\ tag = "COMPLETED" => wpc[w] = "completed"
      /\ tag \in Outcomes => wpc[w] \in RunPcs \ {"telemetry"}
  BY <1>1, <1>2 DEF RunPcs, Outcomes
<1>5. CASE Refused(wcmd[w], tag) /\ Finish(w, "FAILED", "idle")
  <2>1. wpc' = [wpc EXCEPT ![w] = "idle"]
    BY <1>5 DEF Finish
  <2> QED
    BY <1>3, <1>4, <1>5, <2>1, EmitRead
<1>6. CASE Accepted(wcmd[w], tag) /\ wpc' = [wpc EXCEPT ![w] = next]
  <2>1. durable'[wcmd[w]] = durable[wcmd[w]] \union {tag} /\ tag \notin durable[wcmd[w]]
    BY <1>2, <1>6, RunParts DEF Accepted
  <2>2. pc = "queued" => durable[wcmd[w]] \intersect Outcomes = {}
    <3>1. CommandOK(wcmd[w])
      BY <1>2 DEF RunInv
    <3> QED
      BY <1>1, <2>1, <3>1 DEF CommandOK, Exhausted, Reported, Outcomes
  <2>3. Stored(wcmd[w], next)'
    <3>1. CASE pc \in {"queued", "sent"}
      <4>1. durable'[wcmd[w]] \intersect Outcomes = {}
        BY <1>1, <1>2, <2>1, <2>2, <3>1 DEF Stored, RunPcs, Outcomes
      <4> QED
        BY <1>1, <1>3, <3>1, <4>1 DEF Stored
    <3>2. CASE pc \in {"ack", "executing"}
      <4>1. durable'[wcmd[w]] \intersect Outcomes = {}
        BY <1>1, <1>2, <2>1, <3>2 DEF Stored, RunPcs, Outcomes
      <4>2. /\ pc = "ack" => "ACK" \in durable'[wcmd[w]]
            /\ pc = "executing" => {"ACK", "EXECUTING"} \subseteq durable'[wcmd[w]]
        BY <1>1, <1>2, <2>1 DEF Stored
      <4> QED
        BY <1>1, <1>3, <3>2, <4>1, <4>2 DEF Stored
    <3>3. CASE pc = "completed"
      BY <1>1, <3>3 DEF Stored
    <3> QED
      BY <1>1, <3>1, <3>2, <3>3
  <2>4. next \notin {"persist", "enqueue"}
    BY DEF RunPcs
  <2> QED
    BY <1>3, <1>4, <1>6, <2>3, <2>4, EmitRead
<1> QED
  BY <1>1, <1>5, <1>6 DEF EmitOrGiveUp

LEMMA ReportRead ==
    ASSUME TInv, RunInv, ReadInv, NEW w \in Workers,
           EmitRetry(w) \/ EmitTelemetry(w) \/ EmitFailure(w)
    PROVE  ReadInv'
<1>1. UNCHANGED <<dlqStored, crashes, reading, rpart, engine, exec, wcmd, failure, dlq>>
  BY DEF EmitRetry, EmitTelemetry, EmitFailure, readVars, dlqVars
<1>2. {"RETRY", "TELEMETRY", "FAILED", "TIMEOUT"} \subseteq Tags
  BY DEF Tags
<1>3. CASE EmitRetry(w)
  <2>1. /\ wpc[w] = "retry" /\ wpc' = [wpc EXCEPT ![w] = "attempt"]
        /\ Accepted(wcmd[w], "RETRY") \/ Refused(wcmd[w], "RETRY")
    BY <1>3 DEF EmitRetry
  <2>2. wcmd[w] \in Commands /\ Stored(wcmd[w], "retry")
    BY <2>1, WorkerParts DEF ReadInv, RunsStore
  <2>3. durable'[wcmd[w]] \intersect Outcomes = {}
    BY <1>2, <2>1, <2>2, IngestAdds DEF Stored, RunPcs, Outcomes
  <2>4. Stored(wcmd[w], "attempt")'
    BY <1>1, <2>3 DEF Stored
  <2>5. wpc[w] \in RunPcs
    BY <2>1 DEF RunPcs
  <2> QED
    BY <1>1, <1>2, <2>1, <2>4, <2>5, EmitRead DEF Outcomes
<1>4. CASE EmitTelemetry(w)
  <2>1. /\ wpc[w] = "telemetry" /\ wpc' = [wpc EXCEPT ![w] = "idle"]
        /\ Accepted(wcmd[w], "TELEMETRY") \/ Refused(wcmd[w], "TELEMETRY")
    BY <1>4 DEF EmitTelemetry, Finish
  <2>2. wpc[w] \in RunPcs
    BY <2>1 DEF RunPcs
  <2> QED
    BY <1>1, <1>2, <2>1, <2>2, EmitRead DEF Outcomes
<1>5. CASE EmitFailure(w)
  <2>1. /\ wpc[w] = "fail" /\ wpc' = [wpc EXCEPT ![w] = "enqueue"]
        /\ Accepted(wcmd[w], failure[w]) \/ Refused(wcmd[w], failure[w])
    BY <1>5 DEF EmitFailure, Finish
  <2>2. wcmd[w] \in Commands /\ failure[w] \in {"FAILED", "TIMEOUT"}
    BY <2>1, WorkerParts
  <2>3. Calm' => failure[w] \in durable'[wcmd[w]]
    <3>1. CASE Accepted(wcmd[w], failure[w])
      BY <2>2, <3>1, RunParts DEF Accepted
    <3>2. CASE Refused(wcmd[w], failure[w])
      BY <2>2, <3>2 DEF Refused, Calm
    <3> QED
      BY <2>1, <3>1, <3>2
  <2>4. Stored(wcmd[w], "enqueue")'
    BY DEF Stored, RunPcs
  <2>5. wpc[w] \in RunPcs \ {"telemetry"}
    BY <2>1 DEF RunPcs
  <2> QED
    BY <1>1, <1>2, <2>1, <2>2, <2>3, <2>4, <2>5, EmitRead
<1> QED
  BY <1>3, <1>4, <1>5

\* A worker's steps that store no record.
LEMMA WorkRead ==
    ASSUME TInv, RunInv, ReadInv, NEW w \in Workers,
           Take(w) \/ Execute(w) \/ Enqueue(w) \/ PersistEnqueued(w)
    PROVE  ReadInv'
<1>1. /\ UNCHANGED <<durable, crashes, reading, rpart, engine, exec>>
      /\ \A v \in Workers \ {w} :
             wpc'[v] = wpc[v] /\ wcmd'[v] = wcmd[v] /\ failure'[v] = failure[v]
  BY ExecuteParts, WorkerParts DEF Take, Enqueue, PersistEnqueued, worldVars, readVars
<1>2. \A v \in Workers : wpc[v] # "idle" => wcmd[v] \in Commands
  BY WorkerParts
<1>3. CASE Take(w)
  <2>1. UNCHANGED <<dlqStored, log, failure, dlq>> /\ wpc'[w] = "queued"
    BY <1>3, WorkerParts DEF Take, worldVars, dlqVars
  <2>2. FeedInv'
    BY <1>1, <2>1, StillFeed DEF ReadInv
  <2>3. RunsStore'
    BY <1>1, <2>1, RunsStoreQuiet DEF ReadInv
  <2>4. DeadLettersTrue'
    BY <1>1, <1>2, <2>1, DeadLettersKept DEF ReadInv, Calm
  <2> QED
    BY <2>2, <2>3, <2>4 DEF ReadInv
<1>4. CASE Execute(w)
  <2>1. /\ UNCHANGED <<dlqStored, log, wcmd, dlq>> /\ wpc[w] = "attempt"
        /\ wpc'[w] \in {"ack", "retry", "fail"}
    BY <1>4, ExecuteParts, WorkerParts DEF dlqVars
  <2>2. FeedInv'
    BY <1>1, <2>1, StillFeed DEF ReadInv
  <2>3. RunsStore'
    <3> SUFFICES ASSUME NEW v \in Workers, wpc'[v] # "idle" PROVE Stored(wcmd[v], wpc[v])'
      BY DEF RunsStore
    <3>1. CASE v = w
      <4>1. Stored(wcmd[w], "attempt")
        BY <2>1 DEF ReadInv, RunsStore
      <4>2. durable[wcmd[w]] \intersect Outcomes = {}
        BY <4>1 DEF Stored, RunPcs
      <4> QED
        BY <1>1, <2>1, <3>1, <4>2 DEF Stored
    <3>2. CASE v # w
      <4>1. Stored(wcmd[v], wpc[v])
        BY <1>1, <3>2 DEF ReadInv, RunsStore
      <4> QED
        BY <1>1, <3>2, <4>1 DEF Stored
    <3> QED
      BY <3>1, <3>2
  <2>4. DeadLettersTrue'
    BY <1>1, <1>2, <2>1, DeadLettersKept DEF ReadInv, Calm
  <2> QED
    BY <2>2, <2>3, <2>4 DEF ReadInv
<1>5. CASE Enqueue(w)
  <2>1. /\ UNCHANGED <<dlqStored, log, wcmd, failure>> /\ wpc[w] = "enqueue" /\ wpc'[w] = "persist"
        /\ dlq' = [dlq EXCEPT ![wcmd[w]] = [state |-> "PENDING", exec |-> failure[w]]]
    BY <1>5, WorkerParts DEF Enqueue, worldVars
  <2>2. FeedInv'
    BY <1>1, <2>1, StillFeed DEF ReadInv
  <2>3. RunsStore'
    BY <1>1, <2>1, RunsStoreQuiet DEF ReadInv
  <2>4. \A c \in Commands : dlq'[c].exec = dlq[c].exec \/ (Calm' => dlq'[c].exec \in durable'[c])
    <3>1. Calm => failure[w] \in durable[wcmd[w]]
      BY <2>1 DEF ReadInv, DeadLettersTrue
    <3>2. Calm' => Calm
      BY <1>1 DEF Calm
    <3>3. \A c \in Commands : c # wcmd[w] => dlq'[c] = dlq[c]
      BY <2>1, RunParts
    <3>4. dlq'[wcmd[w]].exec = failure[w]
      BY <1>2, <2>1, RunParts
    <3> QED
      BY <1>1, <3>1, <3>2, <3>3, <3>4
  <2>5. DeadLettersTrue'
    BY <1>1, <1>2, <2>1, <2>4, DeadLettersKept DEF ReadInv, Calm
  <2> QED
    BY <2>2, <2>3, <2>5 DEF ReadInv
<1>6. CASE PersistEnqueued(w)
  <2> DEFINE e == [state |-> "PENDING", exec |-> failure[w]]
  <2>1. /\ UNCHANGED <<wcmd, failure, dlq>> /\ wpc[w] = "persist" /\ wpc'[w] = "idle"
        /\ PersistEntry(wcmd[w], e)
    BY <1>6, WorkerParts DEF PersistEnqueued, dlqVars
  <2>2. /\ e \in Entries /\ e.state # "none" /\ wcmd[w] \in Commands
        /\ Calm /\ e.exec # "" => e.exec \in durable[wcmd[w]]
    <3>1. failure[w] \in {"FAILED", "TIMEOUT"} /\ wcmd[w] \in Commands
      BY <2>1, WorkerParts
    <3>2. Calm => failure[w] \in durable[wcmd[w]]
      BY <2>1 DEF ReadInv, DeadLettersTrue
    <3> QED
      BY <3>1, <3>2 DEF Entries
  <2>3. FeedInv'
    <3> HIDE DEF e
    <3> QED
      BY <1>1, <2>1, <2>2, PersistFeed DEF ReadInv
  <2>4. RunsStore'
    BY <1>1, <2>1, RunsStoreQuiet DEF ReadInv
  <2>5. DeadLettersTrue'
    BY <1>1, <1>2, <2>1, DeadLettersKept DEF ReadInv, Calm
  <2> QED
    BY <2>3, <2>4, <2>5 DEF ReadInv
<1> QED
  BY <1>3, <1>4, <1>5, <1>6

\* An operator's step may store a dead-letter row, with the outcome it has.
LEMMA OperateRead ==
    ASSUME TInv, ReadInv, NEW o \in Operators, Operate(o) PROVE ReadInv'
<1>1. UNCHANGED <<durable, crashes, reading, rpart, engine, exec, wpc, wcmd, failure>>
  BY DEF Operate, ReplayStep, ReplayReset, ReplayMark, ReplaySend, ReplayWrite, PersistAction,
         ReplayCheck, Resolve, worldVars, readVars, workVars
<1>2. \A c \in Commands : dlq'[c].exec = dlq[c].exec
  <2>1. \A c \in Commands : dlq[c] \in Entries
    BY RunParts
  <2>2. \/ UNCHANGED dlq
        \/ \E c \in Commands, s \in {"REPLAYED", "RESOLVED"} : dlq' = [dlq EXCEPT ![c].state = s]
    <3>1. CASE ReplayWrite(o)
      <4>1. ocmd[o] \in Commands
        BY <3>1, DlqParts DEF ReplayWrite
      <4> QED
        BY <3>1, <4>1 DEF ReplayWrite
    <3>2. CASE \E c \in Commands : Resolve(o, c)
      BY <3>2 DEF Resolve
    <3> QED
      BY <3>1, <3>2 DEF Operate, ReplayStep, ReplayReset, ReplayMark, ReplaySend, PersistAction,
                        ReplayCheck
  <2>3. CASE UNCHANGED dlq
    BY <2>3
  <2>4. ASSUME NEW c \in Commands, NEW s \in {"REPLAYED", "RESOLVED"},
               dlq' = [dlq EXCEPT ![c].state = s]
        PROVE  \A d \in Commands : dlq'[d].exec = dlq[d].exec
    <3>1. dlq \in [Commands -> Entries]
      BY RunParts
    <3>2. dlq'[c] = [dlq[c] EXCEPT !.state = s] /\ \A d \in Commands : d # c => dlq'[d] = dlq[d]
      BY <2>4, <3>1
    <3>3. dlq'[c].exec = dlq[c].exec
      BY <2>1, <3>2 DEF Entries
    <3> QED
      BY <3>2, <3>3
  <2> QED
    BY <2>2, <2>3, <2>4
<1>3. FeedInv'
  <2>1. CASE PersistAction(o)
    <3>1. PICK c \in Commands, e \in Entries :
              /\ PersistEntry(c, e) /\ e.state # "none" /\ e.exec = dlq[c].exec
      <4>1. ocmd[o] \in Commands /\ dlq[ocmd[o]] \in Entries
        BY <2>1, DlqParts, RunParts DEF PersistAction
      <4>2. dlq[ocmd[o]].exec \in {"", "FAILED", "TIMEOUT"}
        BY <4>1 DEF Entries
      <4>3. PICK e \in Entries : /\ PersistEntry(ocmd[o], e) /\ e.state # "none"
                                 /\ e.exec = dlq[ocmd[o]].exec
        <5>1. \A s \in {"REPLAYED", "RESOLVED"}, x \in {"", "FAILED", "TIMEOUT"} :
                  [state |-> s, exec |-> x] \in Entries
          BY DEF Entries
        <5>2. PICK s \in {"REPLAYED", "RESOLVED"} :
                  PersistEntry(ocmd[o], [state |-> s, exec |-> dlq[ocmd[o]].exec])
          BY <2>1 DEF PersistAction
        <5>3. PICK e \in Entries : e = [state |-> s, exec |-> dlq[ocmd[o]].exec]
          BY <4>2, <5>1
        <5> QED
          BY <5>2, <5>3
      <4> QED
        BY <4>1, <4>3
    <3>2. Calm /\ e.exec # "" => e.exec \in durable[c]
      BY <3>1 DEF ReadInv, DeadLettersTrue
    <3> QED
      BY <1>1, <3>1, <3>2, PersistFeed DEF ReadInv
  <2>2. CASE ~PersistAction(o)
    <3>1. UNCHANGED <<dlqStored, log>>
      BY <2>2 DEF Operate, ReplayStep, ReplayReset, ReplayMark, ReplaySend, ReplayWrite,
                  ReplayCheck, Resolve, worldVars
    <3> QED
      BY <1>1, <3>1, StillFeed DEF ReadInv
  <2> QED
    BY <2>1, <2>2
<1>4. RunsStore'
  BY <1>1, RunsStoreQuiet DEF ReadInv
<1>5. DeadLettersTrue'
  BY <1>1, <1>2, WorkerParts, DeadLettersKept DEF ReadInv, Calm
<1> QED
  BY <1>3, <1>4, <1>5 DEF ReadInv
-----------------------------------------------------------------------------
LEMMA NextRead == TInv /\ RunInv /\ ReadInv /\ [Next]_vars => ReadInv'
<1> SUFFICES ASSUME TInv, RunInv, ReadInv, [Next]_vars PROVE ReadInv'
  OBVIOUS
<1>1. CASE Crash
  BY <1>1, CrashRead
<1>2. CASE Attach \/ Consumer
  BY <1>2, ReadMoves
<1>3. CASE \E c \in Commands : Dispatch(c)
  BY <1>3, DispatchRead
<1>4. CASE \E w \in Workers : Work(w)
  BY <1>4, EmitActionsRead, ReportRead, WorkRead DEF Work
<1>5. CASE \E o \in Operators : Operate(o)
  BY <1>5, OperateRead
<1>6. CASE UNCHANGED vars
  <2>1. /\ UNCHANGED <<durable, dlqStored, crashes, exec, log, engine, reading, rpart>>
        /\ UNCHANGED <<wpc, wcmd, failure, dlq>>
    BY <1>6 DEF vars, worldVars, readVars, workVars, dlqVars
  <2>2. FeedInv'
    BY <2>1, StillFeed DEF ReadInv
  <2>3. RunsStore' /\ DeadLettersTrue'
    BY <2>1 DEF ReadInv, RunsStore, Stored, DeadLettersTrue, Calm
  <2> QED
    BY <2>2, <2>3 DEF ReadInv
<1> QED
  BY <1>1, <1>2, <1>3, <1>4, <1>5, <1>6 DEF Next

LEMMA ReadGives == ReadInv => ReadModelAgrees
<1> SUFFICES ASSUME ReadInv, NEW c \in Commands
             PROVE  /\ exec[c] = "COMPLETED" => "COMPLETED" \in durable[c]
                    /\ exec[c] \in {"FAILED", "TIMEOUT"} =>
                           exec[c] \in durable[c] \/ dlqStored[c] # NoEntry
  BY DEF ReadModelAgrees
<1>1. Said(c, exec[c])
  BY DEF ReadInv, FeedInv, ExecTrue
<1> QED
  BY <1>1 DEF Said

LEMMA ReadSettles == ReadInv => ReadModelSettles
<1> SUFFICES ASSUME ReadInv, Calm, \A p \in Partitions : log[p] = <<>>,
                    NEW c \in Commands, NEW t \in Outcomes, t \in durable[c]
             PROVE  exec[c] = t
  BY DEF ReadModelSettles, Calm, Outcomes
<1>1. Len(Vehicle) = 0
  BY DEF Vehicle, Partitions
<1>2. StateOf(t) = t
  BY DEF StateOf, Outcomes
<1>3. Comes(c, t, Len(Vehicle))
  BY <1>2 DEF ReadInv, FeedInv, Underway
<1>4. exec[c] \in Beyond(t)
  BY <1>1, <1>3 DEF Comes
<1> QED
  BY <1>4 DEF Beyond, Outcomes

(* What the messages, the read model and the workers say is recorded, in    *)
(* every behaviour.                                                         *)
THEOREM ReadInductive == Spec => []ReadInv
<1> QED
  BY InitRead, NextRead, RunsInductive, PTL DEF Spec

(* GET /v1/commands/execution shows no outcome that no record states.        *)
THEOREM ReadModelHolds == Spec => []ReadModelAgrees
<1> QED
  BY ReadInductive, ReadGives, PTL

(* When nothing was lost and all is consumed it shows the recorded outcome,  *)
(* whatever came twice and in whichever order the two partitions were read. *)
THEOREM ReadModelIsSettled == Spec => []ReadModelSettles
<1> QED
  BY ReadInductive, ReadSettles, PTL

-----------------------------------------------------------------------------
(* NoCommandSlipsAway: from its RECEIVED record to its QUEUED one a command *)
(* is on its way: unread, queued, or held by a worker about to store QUEUED. *)
(* A message that is ignored because its command is marked in flight is no  *)
(* loss: the mark has an owner (InFlightOwned), and the owner is a place on *)
(* the way or has the QUEUED record.                                        *)

AboutToQueue(w, c) == wcmd[w] = c /\ wpc[w] = "queued"

FirstSeen(c, i) ==
    /\ log["ground"][i] = Message(c, "RECEIVED")
    /\ i = 1 /\ rpart = "ground" => reading # "commit"

LEMMA WayIs ==
    ASSUME NEW c
    PROVE  /\ OnItsWay(c) <=> \/ "QUEUED" \in durable[c] \/ Queued(c)
                              \/ \E w \in Workers : AboutToQueue(w, c)
                              \/ terminal[c] = "" /\ Unread(c)
           /\ Unread(c) <=> \E i \in 1 .. Len(log["ground"]) : FirstSeen(c, i)
BY DEF OnItsWay, Queued, AboutToQueue, Unread, FirstSeen

LEMMA WayThere ==
    ASSUME NEW c, \/ "QUEUED" \in durable'[c] \/ Queued(c)'
                  \/ \E w \in Workers : AboutToQueue(w, c)'
                  \/ terminal'[c] = "" /\ Unread(c)'
    PROVE  OnItsWay(c)'
BY DEF OnItsWay, Queued, AboutToQueue

LEMMA WayKept ==
    ASSUME NEW c, OnItsWay(c), durable[c] \subseteq durable'[c],
           Queued(c) => OnItsWay(c)',
           \A w \in Workers : AboutToQueue(w, c) => OnItsWay(c)',
           terminal[c] = "" /\ Unread(c) => OnItsWay(c)'
    PROVE  OnItsWay(c)'
BY WayIs, WayThere

(* Messages in the log. *)
LEMMA GroundLog ==
    ASSUME TInv
    PROVE  /\ log["ground"] \in Seq(Messages) /\ Len(log["ground"]) \in Nat
           /\ rpart \in {"ground", "vehicle"} /\ (reading # "fetch" => log[rpart] # <<>>)
           /\ "ground" \in Partitions
<1>1. "ground" \in Partitions /\ log["ground"] \in Seq(Messages)
  BY ReadParts
<1>2. Len(log["ground"]) \in Nat
  BY <1>1
<1> QED
  BY <1>1, <1>2, ReadParts

LEMMA LogGrows ==
    ASSUME TInv, NEW p \in Partitions, NEW m \in Messages, Publish(p, m) \/ UNCHANGED log
    PROVE  /\ Len(log'["ground"]) \in Nat /\ Len(log["ground"]) <= Len(log'["ground"])
           /\ \A i \in 1 .. Len(log["ground"]) : log'["ground"][i] = log["ground"][i]
<1>1. log["ground"] \in Seq(Messages) /\ log \in [Partitions -> Seq(Messages)]
  BY GroundLog, ReadParts
<1>2. \/ log'["ground"] = log["ground"] \/ log'["ground"] = Append(log["ground"], m)
      \/ log'["ground"] = log["ground"] \o <<m, m>>
  BY <1>1, GroundLog DEF Publish
<1>3. CASE log'["ground"] = log["ground"] \o <<m, m>>
  BY <1>1, <1>3
<1>4. CASE log'["ground"] = Append(log["ground"], m) \/ log'["ground"] = log["ground"]
  BY <1>1, <1>4
<1> QED
  BY <1>2, <1>3, <1>4

LEMMA UnreadPublished ==
    ASSUME TInv, NEW p \in Partitions, NEW m \in Messages, Publish(p, m) \/ UNCHANGED log,
           UNCHANGED <<reading, rpart>>, NEW c, Unread(c)
    PROVE  Unread(c)'
<1>1. PICK i \in 1 .. Len(log["ground"]) : FirstSeen(c, i)
  BY WayIs
<1>2. i \in 1 .. Len(log'["ground"]) /\ log'["ground"][i] = log["ground"][i]
  BY <1>1, LogGrows, GroundLog
<1> QED
  BY <1>1, <1>2 DEF Unread, FirstSeen

LEMMA UnreadDropped ==
    ASSUME TInv, NEW p \in Partitions, Dropped(p), reading' # "commit", NEW c, Unread(c),
           p = "ground" => \/ Next1("ground") # Message(c, "RECEIVED")
                           \/ rpart = "ground" /\ reading = "commit"
    PROVE  Unread(c)'
<1>1. PICK i \in 1 .. Len(log["ground"]) : FirstSeen(c, i)
  BY WayIs
<1>2. CASE p = "ground"
  <2>1. i # 1
    BY <1>1, <1>2, DroppedIs DEF FirstSeen
  <2>2. i - 1 \in 1 .. Len(log'["ground"]) /\ log'["ground"][i - 1] = log["ground"][i]
    <3>1. /\ Len(log["ground"]) \in Nat \ {0} /\ Len(log'["ground"]) = Len(log["ground"]) - 1
          /\ \A j \in 1 .. Len(log'["ground"]) : log'["ground"][j] = log["ground"][j + 1]
      BY <1>2, DroppedIs
    <3>2. i - 1 \in 1 .. Len(log'["ground"]) /\ (i - 1) + 1 = i
      BY <1>1, <2>1, <3>1
    <3> QED
      BY <3>1, <3>2
  <2> QED
    BY <1>1, <2>2 DEF Unread, FirstSeen
<1>3. CASE p # "ground"
  <2>1. log'["ground"] = log["ground"]
    BY <1>3, DroppedIs, GroundLog
  <2> QED
    BY <1>1, <2>1 DEF Unread, FirstSeen
<1> QED
  BY <1>2, <1>3

\* The message in hand is the first of its partition.
LEMMA UnreadInHand ==
    ASSUME TInv, UNCHANGED <<log, rpart>>, NEW c, Unread(c), reading # "fetch",
           reading' # "commit" \/ c # Next1(rpart).cmd
    PROVE  Unread(c)'
<1>1. PICK i \in 1 .. Len(log["ground"]) : FirstSeen(c, i)
  BY WayIs
<1>2. i = 1 /\ rpart = "ground" => Next1(rpart).cmd = c
  <2>1. log["ground"][1] = Message(c, "RECEIVED") /\ rpart = "ground" => Next1(rpart).cmd = c
    BY GroundLog DEF Next1, Message
  <2> QED
    BY <1>1, <2>1 DEF FirstSeen
<1> QED
  BY <1>1, <1>2 DEF Unread, FirstSeen

(* What a worker's step does to the store, the log and the terminal map. *)
Emitting(w) ==
    \/ EmitQueued(w) \/ EmitSent(w) \/ EmitAck(w) \/ EmitExecuting(w) \/ EmitCompleted(w)
    \/ EmitRetry(w) \/ EmitTelemetry(w) \/ EmitFailure(w)

LEMMA EmitIs ==
    ASSUME TInv, NEW w \in Workers, Emitting(w)
    PROVE  /\ wpc[w] \in RunPcs \union {"queued"} /\ wpc[w] # "idle" /\ wcmd[w] \in Commands
           /\ UNCHANGED <<reading, rpart, attached, queue, wcmd, crashes>>
           /\ \E tag \in Tags \ {"RECEIVED"} :
                 /\ Accepted(wcmd[w], tag) \/ Refused(wcmd[w], tag)
                 /\ wpc[w] = "queued" => tag = "QUEUED"
           /\ \E pc \in WorkerPcs \ {"queued"} : wpc' = [wpc EXCEPT ![w] = pc]
           /\ UNCHANGED terminal \/ \E s : terminal' = [terminal EXCEPT ![wcmd[w]] = s]
<1>1. /\ Tags = {"RECEIVED", "QUEUED", "SENT", "RETRY", "ACK", "EXECUTING", "COMPLETED",
                 "FAILED", "TIMEOUT", "TELEMETRY"}
      /\ RunPcs = {"sent", "attempt", "retry", "ack", "executing", "completed", "telemetry", "fail"}
      /\ WorkerPcs = {"idle", "queued", "enqueue", "persist"} \union RunPcs
      /\ failure[w] \in {"FAILED", "TIMEOUT"}
  BY WorkerParts DEF Tags, RunPcs, WorkerPcs
<1>2. wpc[w] \in RunPcs \union {"queued"} /\ wpc[w] # "idle" /\ wcmd[w] \in Commands
  BY <1>1, WorkerParts
     DEF Emitting, EmitQueued, EmitSent, EmitAck, EmitExecuting, EmitCompleted, EmitOrGiveUp,
         EmitRetry, EmitTelemetry, EmitFailure
<1>3. UNCHANGED <<reading, rpart, attached, queue, wcmd, crashes>>
  BY DEF Emitting, EmitQueued, EmitSent, EmitAck, EmitExecuting, EmitCompleted, EmitOrGiveUp,
         EmitRetry, EmitTelemetry, EmitFailure, Finish, readVars, submitVars
<1>4. \E tag \in Tags \ {"RECEIVED"} :
         /\ Accepted(wcmd[w], tag) \/ Refused(wcmd[w], tag)
         /\ wpc[w] = "queued" => tag = "QUEUED"
  <2>1. CASE EmitQueued(w) \/ EmitSent(w)
    BY <1>1, <2>1 DEF EmitQueued, EmitSent, EmitOrGiveUp
  <2>2. CASE EmitAck(w) \/ EmitExecuting(w) \/ EmitCompleted(w)
    BY <1>1, <2>2 DEF EmitAck, EmitExecuting, EmitCompleted, EmitOrGiveUp
  <2>3. CASE EmitRetry(w) \/ EmitTelemetry(w) \/ EmitFailure(w)
    BY <1>1, <2>3 DEF EmitRetry, EmitTelemetry, EmitFailure
  <2> QED
    BY <2>1, <2>2, <2>3 DEF Emitting
<1>5. \E pc \in WorkerPcs \ {"queued"} : wpc' = [wpc EXCEPT ![w] = pc]
  <2>1. CASE EmitQueued(w) \/ EmitSent(w)
    BY <1>1, <2>1 DEF EmitQueued, EmitSent, EmitOrGiveUp, Finish
  <2>2. CASE EmitAck(w) \/ EmitExecuting(w) \/ EmitCompleted(w)
    BY <1>1, <2>2 DEF EmitAck, EmitExecuting, EmitCompleted, EmitOrGiveUp, Finish
  <2>3. CASE EmitRetry(w) \/ EmitTelemetry(w) \/ EmitFailure(w)
    BY <1>1, <2>3 DEF EmitRetry, EmitTelemetry, EmitFailure, Finish
  <2> QED
    BY <2>1, <2>2, <2>3 DEF Emitting
<1>6. UNCHANGED terminal \/ \E s : terminal' = [terminal EXCEPT ![wcmd[w]] = s]
  BY DEF Emitting, EmitQueued, EmitSent, EmitAck, EmitExecuting, EmitCompleted, EmitOrGiveUp,
         EmitRetry, EmitTelemetry, EmitFailure, Finish, submitVars
<1> QED
  BY <1>2, <1>3, <1>4, <1>5, <1>6

LEMMA WorkGrows ==
    ASSUME TInv, NEW w \in Workers, Work(w)
    PROVE  \A d \in Commands :
               /\ durable[d] \subseteq durable'[d]
               /\ "RECEIVED" \in durable'[d] => "RECEIVED" \in durable[d]
<1>1. CASE Emitting(w)
  <2>1. PICK tag \in Tags \ {"RECEIVED"} : Accepted(wcmd[w], tag) \/ Refused(wcmd[w], tag)
    BY <1>1, EmitIs
  <2> QED
    BY <1>1, <2>1, EmitIs, IngestAdds
<1>2. CASE Take(w) \/ Execute(w) \/ Enqueue(w) \/ PersistEnqueued(w)
  BY <1>2, ExecuteParts DEF Take, Enqueue, PersistEnqueued, worldVars
<1> QED
  BY <1>1, <1>2 DEF Work, Emitting

LEMMA WorkEnds ==
    ASSUME TInv, NEW w \in Workers, Work(w)
    PROVE  \/ UNCHANGED terminal
           \/ wpc[w] # "idle" /\ \E s : terminal' = [terminal EXCEPT ![wcmd[w]] = s]
<1>1. CASE Emitting(w)
  BY <1>1, EmitIs
<1>2. CASE Take(w) \/ Execute(w) \/ Enqueue(w) \/ PersistEnqueued(w)
  BY <1>2, ExecuteParts DEF Take, Enqueue, PersistEnqueued, submitVars
<1> QED
  BY <1>1, <1>2 DEF Work, Emitting

-----------------------------------------------------------------------------
(* Only a run ends in the terminal map, and runs are of known commands. *)
TerminalKnown == \A c \in Commands : terminal[c] # "" => Received(c)

TerminalParts == terminal \in [Commands -> {"", "COMPLETED", "FAILED", "TIMEOUT"}]

LEMMA NextTerminal == TInv /\ OrderInv /\ TerminalKnown /\ [Next]_vars => TerminalKnown'
<1> SUFFICES ASSUME TInv, OrderInv, TerminalKnown, [Next]_vars, NEW c \in Commands,
                    terminal'[c] # ""
             PROVE  "RECEIVED" \in durable'[c]
  BY DEF TerminalKnown, Received
<1>0. TerminalParts
  BY DEF TInv, TypeOK, SubmitTypeOK, TerminalParts
<1>1. ASSUME durable[c] \subseteq durable'[c], terminal'[c] = terminal[c] \/ terminal'[c] = ""
      PROVE  "RECEIVED" \in durable'[c]
  BY <1>1 DEF TerminalKnown, Received
<1>2. ASSUME UNCHANGED durable, UNCHANGED terminal PROVE "RECEIVED" \in durable'[c]
  BY <1>1, <1>2
<1>3. CASE Crash
  BY <1>1, <1>3 DEF Crash
<1>4. CASE Attach \/ Consumer
  BY <1>2, <1>4 DEF Attach, Consumer, Consume, ConsumerMark, ConsumerSend, ConsumerCommit,
     Send, worldVars, submitVars
<1>5. ASSUME NEW d \in Commands, Dispatch(d) PROVE "RECEIVED" \in durable'[c]
  <2>1. durable[c] \subseteq durable'[c]
    BY <1>5, IngestAdds DEF Dispatch, Tags
  <2> QED
    BY <1>1, <1>5, <2>1 DEF Dispatch, submitVars
<1>6. ASSUME NEW w \in Workers, Work(w) PROVE "RECEIVED" \in durable'[c]
  <2>1. durable[c] \subseteq durable'[c]
    BY <1>6, WorkGrows
  <2>2. CASE wpc[w] # "idle" /\ c = wcmd[w]
    BY <2>1, <2>2 DEF OrderInv, WorkersKnown, Received
  <2>3. CASE ~(wpc[w] # "idle" /\ c = wcmd[w])
    <3>1. terminal'[c] = terminal[c]
      BY <1>0, <1>6, <2>3, WorkEnds DEF TerminalParts
    <3> QED
      BY <1>1, <2>1, <3>1
  <2> QED
    BY <2>2, <2>3
<1>7. ASSUME NEW o \in Operators, Operate(o) PROVE "RECEIVED" \in durable'[c]
  <2>1. UNCHANGED durable /\ (UNCHANGED terminal \/ terminal' = [terminal EXCEPT ![ocmd[o]] = ""])
    BY <1>7 DEF Operate, ReplayStep, ReplayReset, ReplayMark, ReplaySend, ReplayWrite,
       PersistAction, ReplayCheck, Resolve, Send, worldVars, submitVars
  <2> QED
    BY <1>0, <1>1, <2>1 DEF TerminalParts
<1>8. CASE UNCHANGED vars
  BY <1>2, <1>8 DEF vars, worldVars, submitVars
<1> QED
  BY <1>3, <1>4, <1>5, <1>6, <1>7, <1>8 DEF Next
-----------------------------------------------------------------------------
(* One step, by who takes it. *)
Onward(c) == OnItsWay(c)' \/ crashes' # crashes \/ LetGo(c)

LEMMA SameWay ==
    ASSUME NEW c, OnItsWay(c),
           UNCHANGED <<durable, queue, wpc, wcmd, terminal, log, reading, rpart>>
    PROVE  OnItsWay(c)'
BY DEF OnItsWay, Unread

\* A publication and nothing else of the way, as long as the store only grows.
LEMMA PublishWay ==
    ASSUME TInv, NEW p \in Partitions, NEW m \in Messages, Publish(p, m) \/ UNCHANGED log,
           UNCHANGED <<reading, rpart, queue>>, NEW c, OnItsWay(c),
           durable[c] \subseteq durable'[c], terminal[c] = "" => terminal'[c] = "",
           \A w \in Workers : AboutToQueue(w, c) => OnItsWay(c)'
    PROVE  OnItsWay(c)'
<1>1. Queued(c) => Queued(c)'
  BY DEF Queued
<1>2. Unread(c) => Unread(c)'
  BY UnreadPublished
<1> QED
  BY <1>1, <1>2, WayKept, WayThere

LEMMA ConsumeWay ==
    ASSUME TInv, EngineOK, NEW c \in Commands, OnItsWay(c), NEW p \in Partitions, Consume(p)
    PROVE  Onward(c)
<1>1. /\ reading = "fetch" /\ log[p] # <<>>
      /\ UNCHANGED <<durable, queue, wpc, wcmd, terminal>>
  BY DEF Consume, worldVars, submitVars, workVars
<1>2. CASE IsForOrchestrator(Next1(p))
  <2>1. reading' = "mark" /\ rpart' = p /\ UNCHANGED log
    BY <1>2 DEF Consume
  <2>2. Unread(c) => Unread(c)'
    BY <2>1 DEF Unread
  <2> QED
    BY <1>1, <2>2 DEF Onward, OnItsWay
<1>3. CASE ~IsForOrchestrator(Next1(p))
  <2>1. Dropped(p) /\ UNCHANGED <<reading, rpart>>
    BY <1>1, <1>3 DEF Consume, Dropped
  <2>2. CASE p = "ground" /\ Next1("ground") = Message(c, "RECEIVED")
    <3>1. /\ Message(c, "RECEIVED").kind = "command" /\ Message(c, "RECEIVED").cmd = c
          /\ Message(c, "RECEIVED").state = "RECEIVED"
      BY DEF Message, CommandTags, StateOf
    <3>2. IsValidCommandTransition(engine[c], "RECEIVED")
      BY DEF EngineOK, IsValidCommandTransition
    <3>3. ~attached
      BY <1>3, <2>2, <3>1, <3>2 DEF IsForOrchestrator
    <3> QED
      BY <1>1, <2>2, <3>3 DEF Onward, LetGo
  <2>3. CASE ~(p = "ground" /\ Next1("ground") = Message(c, "RECEIVED"))
    <3>1. Unread(c) => Unread(c)'
      BY <1>1, <2>1, <2>3, UnreadDropped
    <3> QED
      BY <1>1, <3>1 DEF Onward, OnItsWay
  <2> QED
    BY <2>2, <2>3
<1> QED
  BY <1>2, <1>3

(* A command that Submit ignores for its mark has an owner further on. *)
LEMMA MarkedWay ==
    ASSUME TInv, RunInv, InFlightOwned, NEW c \in Commands, c \in inFlight, reading # "send",
           UNCHANGED <<durable, queue, wpc, wcmd>>
    PROVE  OnItsWay(c)'
<1>1. Owned(c)
  BY OwnedMeaning
<1>2. CASE Queued(c)
  BY <1>2, WayThere DEF Queued
<1>3. ASSUME NEW w \in Workers, HeldBy(w, c) PROVE OnItsWay(c)'
  <2>1. CASE wpc[w] = "queued"
    BY <1>3, <2>1, WayThere DEF HeldBy, AboutToQueue
  <2>2. CASE wpc[w] \in RunPcs
    <3>1. WorkerOK(w) /\ wcmd[w] = c
      BY <1>3, <2>2 DEF RunInv, HeldBy, RunPcs
    <3> QED
      BY <2>2, <3>1, WayThere DEF WorkerOK, RunOK
  <2> QED
    BY <1>3, <2>1, <2>2 DEF HeldBy
<1>4. ASSUME NEW o \in Operators, Replaying(o, c) PROVE OnItsWay(c)'
  <2>1. Exhausted(c)
    BY <1>4 DEF Replaying, RunInv, OperatorOK
  <2> QED
    BY <2>1, WayThere DEF Exhausted
<1> QED
  BY <1>1, <1>2, <1>3, <1>4 DEF Owned, Submitting

LEMMA ConsumerWay ==
    ASSUME TInv, RunInv, InFlightOwned, NEW c \in Commands, OnItsWay(c),
           ConsumerMark \/ ConsumerSend \/ ConsumerCommit
    PROVE  Onward(c)
<1> DEFINE d == Next1(rpart).cmd
<1>1. UNCHANGED <<durable, wpc, wcmd, terminal>>
  BY DEF ConsumerMark, ConsumerSend, ConsumerCommit, Send, worldVars, workVars, submitVars
<1>2. CASE ConsumerMark
  <2>1. reading = "mark" /\ UNCHANGED <<log, rpart, queue>>
    BY <1>2 DEF ConsumerMark
  <2>2. CASE c = d /\ reading' = "commit"
    <3>1. c \in inFlight \/ terminal[c] # ""
      BY <1>2, <2>2 DEF ConsumerMark, Busy
    <3>2. CASE c \in inFlight
      BY <1>1, <2>1, <3>2, MarkedWay DEF Onward
    <3>3. CASE terminal[c] # ""
      BY <1>1, <2>1, <3>3 DEF Onward, OnItsWay
    <3> QED
      BY <3>1, <3>2, <3>3
  <2>3. CASE ~(c = d /\ reading' = "commit")
    <3>1. Unread(c) => Unread(c)'
      BY <2>1, <2>3, UnreadInHand
    <3> QED
      BY <1>1, <2>1, <3>1 DEF Onward, OnItsWay
  <2> QED
    BY <2>2, <2>3
<1>3. CASE ConsumerSend
  <2>1. reading = "send" /\ UNCHANGED <<log, rpart>> /\ Send(d) /\ d \in Commands
    BY <1>3, NextMessageTyped, ReadParts DEF ConsumerSend
  <2>2. Queued(c) => Queued(c)'
    BY <2>1, QueuedBySend
  <2>3. CASE c = d /\ Len(queue) < QueueCapacity
    <3>1. queue \in Seq(Commands) /\ queue' = Append(queue, c)
      BY <2>1, <2>3 DEF Send, TInv, TypeOK, SubmitTypeOK
    <3>2. Len(queue') \in 1 .. Len(queue') /\ queue'[Len(queue')] = c
      BY <3>1
    <3> QED
      BY <3>2, WayThere DEF Queued, Onward
  <2>4. CASE c = d /\ ~(Len(queue) < QueueCapacity)
    <3>1. queue \in Seq(Commands) /\ QueueCapacity \in Nat
      BY PipelineAssumption DEF TInv, TypeOK, SubmitTypeOK
    <3>2. Len(queue) >= QueueCapacity
      BY <2>4, <3>1
    <3> QED
      BY <2>1, <2>4, <3>2 DEF Onward, LetGo
  <2>5. CASE c # d
    <3>1. Unread(c) => Unread(c)'
      BY <2>1, <2>5, UnreadInHand
    <3>2. \A w \in Workers : AboutToQueue(w, c) => AboutToQueue(w, c)'
      BY <1>1 DEF AboutToQueue
    <3> QED
      BY <1>1, <2>2, <3>1, <3>2, WayKept, WayThere DEF Onward
  <2> QED
    BY <2>3, <2>4, <2>5
<1>4. CASE ConsumerCommit
  <2>1. /\ reading = "commit" /\ reading' = "fetch" /\ Dropped(rpart) /\ rpart \in Partitions
        /\ UNCHANGED queue
    BY <1>4, ReadParts DEF ConsumerCommit, Dropped, submitVars
  <2>2. Unread(c) => Unread(c)'
    BY <2>1, UnreadDropped
  <2> QED
    BY <1>1, <2>1, <2>2 DEF Onward, OnItsWay
<1> QED
  BY <1>2, <1>3, <1>4

LEMMA TakeWay ==
    ASSUME TInv, NEW c \in Commands, OnItsWay(c), NEW w \in Workers, Take(w) PROVE OnItsWay(c)'
<1>1. /\ UNCHANGED <<durable, terminal, log, reading, rpart>>
      /\ wpc[w] = "idle" /\ wpc' = [wpc EXCEPT ![w] = "queued"]
      /\ wcmd' = [wcmd EXCEPT ![w] = Head(queue)]
  BY DEF Take, worldVars, readVars
<1>2. queue \in Seq(Commands) /\ queue # <<>> /\ queue' = Tail(queue)
  BY DEF TInv, TypeOK, SubmitTypeOK, Take
<1>3. c = Head(queue) => AboutToQueue(w, c)'
  BY <1>1, WorkerParts DEF AboutToQueue
<1>4. ASSUME Queued(c) PROVE OnItsWay(c)'
  <2>1. PICK i \in 1 .. Len(queue) : queue[i] = c
    BY <1>4 DEF Queued
  <2>2. CASE i = 1
    <3>1. c = Head(queue)
      BY <1>2, <2>1, <2>2
    <3> QED
      BY <1>3, <3>1, WayThere
  <2>3. CASE i # 1
    <3>1. i - 1 \in 1 .. Len(queue') /\ queue'[i - 1] = c
      BY <1>2, <2>1, <2>3
    <3> QED
      BY <3>1, WayThere DEF Queued
  <2> QED
    BY <2>2, <2>3
<1>5. ASSUME NEW v \in Workers, AboutToQueue(v, c) PROVE OnItsWay(c)'
  <2>1. AboutToQueue(v, c)'
    BY <1>1, <1>5, WorkerParts DEF AboutToQueue
  <2> QED
    BY <2>1, WayThere
<1>6. Unread(c) => Unread(c)'
  BY <1>1 DEF Unread
<1> QED
  BY <1>1, <1>4, <1>5, <1>6, WayKept, WayThere

(* A worker either stores QUEUED, or has stored it, before it ends a run. *)
LEMMA EmitWay ==
    ASSUME TInv, RunInv, NEW c \in Commands, OnItsWay(c), NEW w \in Workers, Emitting(w)
    PROVE  Onward(c)
<1>1. PICK tag \in Tags \ {"RECEIVED"} : /\ Accepted(wcmd[w], tag) \/ Refused(wcmd[w], tag)
                                         /\ wpc[w] = "queued" => tag = "QUEUED"
  BY EmitIs
<1>2. /\ wpc[w] \in RunPcs \union {"queued"} /\ wpc[w] # "idle" /\ wcmd[w] \in Commands
      /\ UNCHANGED <<reading, rpart, queue, wcmd>>
      /\ UNCHANGED terminal \/ \E s : terminal' = [terminal EXCEPT ![wcmd[w]] = s]
      /\ \A d \in Commands : durable[d] \subseteq durable'[d]
  BY EmitIs, WorkGrows DEF Work, Emitting
<1>3. CASE "QUEUED" \in durable'[c]
  BY <1>3, WayThere DEF Onward
<1>4. CASE wcmd[w] = c /\ wpc[w] \in RunPcs
  <2>1. WorkerOK(w)
    BY <1>2 DEF RunInv
  <2>2. "QUEUED" \in durable[c]
    BY <1>4, <2>1 DEF WorkerOK, RunOK
  <2> QED
    BY <1>2, <1>3, <2>2
<1>5. CASE wcmd[w] = c /\ wpc[w] = "queued" /\ "QUEUED" \notin durable'[c]
  <2>1. EmitQueued(w)
    BY <1>5 DEF Emitting, EmitQueued, EmitSent, EmitAck, EmitExecuting, EmitCompleted, EmitOrGiveUp,
         EmitRetry, EmitTelemetry, EmitFailure
  <2>2. Refused(c, "QUEUED") /\ Finish(w, "FAILED", "idle")
    BY <1>5, <2>1, RunParts DEF EmitQueued, EmitOrGiveUp, Accepted
  <2>3. "store" \in Faults
    BY <1>5, <2>2, RunParts DEF Refused
  <2>4. wpc'[w] = "idle"
    BY <2>2, WorkerParts DEF Finish
  <2> QED
    BY <1>5, <2>3, <2>4 DEF Onward, LetGo
<1>6. CASE wcmd[w] # c
  <2>1. terminal'[c] = terminal[c]
    BY <1>2, <1>6 DEF TInv, TypeOK, SubmitTypeOK
  <2>2. PICK p \in Partitions, m \in Messages : Publish(p, m) \/ UNCHANGED log
    BY <1>1, <1>2, IngestPublishes
  <2>3. PICK pc : wpc' = [wpc EXCEPT ![w] = pc]
    BY EmitIs
  <2>4. ASSUME NEW v \in Workers, AboutToQueue(v, c) PROVE OnItsWay(c)'
    <3>1. AboutToQueue(v, c)'
      BY <1>2, <1>6, <2>3, <2>4, WorkerParts DEF AboutToQueue
    <3> QED
      BY <3>1, WayThere
  <2> QED
    BY <1>2, <2>1, <2>2, <2>4, PublishWay DEF Onward
<1> QED
  BY <1>2, <1>3, <1>4, <1>5, <1>6

LEMMA WorkWay ==
    ASSUME TInv, RunInv, NEW c \in Commands, OnItsWay(c), NEW w \in Workers, Work(w)
    PROVE  Onward(c)
<1>1. CASE Execute(w) \/ Enqueue(w) \/ PersistEnqueued(w)
  <2>1. UNCHANGED <<durable, queue, wcmd, terminal, reading, rpart>> /\ wpc[w] # "queued"
    BY <1>1, ExecuteParts DEF Enqueue, PersistEnqueued, worldVars, readVars, submitVars
  <2>2. PICK pc : wpc' = [wpc EXCEPT ![w] = pc]
    BY <1>1, ExecuteParts DEF Enqueue, PersistEnqueued
  <2>3. ASSUME NEW v \in Workers, AboutToQueue(v, c) PROVE OnItsWay(c)'
    <3>1. AboutToQueue(v, c)'
      BY <2>1, <2>2, <2>3, WorkerParts DEF AboutToQueue
    <3> QED
      BY <3>1, WayThere
  <2>4. \E p \in Partitions, m \in Messages : Publish(p, m) \/ UNCHANGED log
    <3>1. CASE UNCHANGED log
      <4>1. c \in Commands /\ "ground" \in Partitions /\ Message(c, "RECEIVED") \in Messages
        BY MessageTyped, GroundLog DEF Tags
      <4> QED
        BY <3>1, <4>1
    <3>2. CASE PersistEnqueued(w)
      <4>1. wpc[w] # "idle" /\ [state |-> "PENDING", exec |-> failure[w]] \in Entries
        BY <3>2, WorkerParts, EntryTyped DEF PersistEnqueued
      <4> QED
        BY <3>2, <4>1, WorkerParts, EntryPublishes DEF PersistEnqueued
    <3> QED
      BY <1>1, <3>1, <3>2, ExecuteParts DEF Enqueue
  <2> QED
    BY <2>1, <2>3, <2>4, PublishWay DEF Onward
<1>2. CASE Take(w)
  BY <1>2, TakeWay DEF Onward
<1>3. CASE Emitting(w)
  BY <1>3, EmitWay
<1> QED
  BY <1>1, <1>2, <1>3 DEF Work, Emitting

(* Operators touch commands whose QUEUED record is stored. *)
LEMMA OperateWay ==
    ASSUME TInv, RunInv, NEW c \in Commands, OnItsWay(c), NEW o \in Operators, Operate(o)
    PROVE  OnItsWay(c)'
<1>1. UNCHANGED <<durable, wpc, wcmd, reading, rpart>>
  BY DEF Operate, ReplayStep, ReplayReset, ReplayMark, ReplaySend, ReplayWrite,
     PersistAction, ReplayCheck, Resolve, worldVars, workVars, readVars
<1>2. CASE "QUEUED" \in durable[c]
  BY <1>1, <1>2, WayThere
<1>3. ASSUME "QUEUED" \notin durable[c] PROVE OnItsWay(c)'
  <2>1. opc[o] # "idle" => ocmd[o] \in Commands /\ ocmd[o] # c
    BY <1>3, DlqParts DEF RunInv, OperatorOK, Exhausted
  <2>2. terminal'[c] = terminal[c]
    <3>1. CASE ReplayReset(o)
      BY <2>1, <3>1 DEF ReplayReset, TInv, TypeOK, SubmitTypeOK
    <3>2. CASE ~ReplayReset(o)
      BY <3>2 DEF Operate, ReplayStep, ReplayMark, ReplaySend, ReplayWrite, Send,
         PersistAction, ReplayCheck, Resolve, submitVars
    <3> QED
      BY <3>1, <3>2
  <2>3. Queued(c) => Queued(c)'
    <3>1. CASE ReplaySend(o)
      BY <2>1, <3>1, QueuedBySend DEF ReplaySend
    <3>2. CASE ~ReplaySend(o)
      <4>1. UNCHANGED queue
        BY <3>2 DEF Operate, ReplayStep, ReplayReset, ReplayMark, ReplayWrite,
           PersistAction, ReplayCheck, Resolve, submitVars
      <4> QED
        BY <4>1 DEF Queued
    <3> QED
      BY <3>1, <3>2
  <2>4. Unread(c) => Unread(c)'
    <3>1. CASE PersistAction(o)
      <4>1. PICK e \in Entries : PersistEntry(ocmd[o], e) /\ opc[o] # "idle"
        BY <3>1, DlqParts, EntryTyped DEF PersistAction, Entries
      <4>2. PICK p \in Partitions, m \in Messages : Publish(p, m) \/ UNCHANGED log
        BY <2>1, <4>1, EntryPublishes
      <4> QED
        BY <1>1, <4>2, UnreadPublished
    <3>2. CASE ~PersistAction(o)
      <4>1. UNCHANGED log
        BY <3>2 DEF Operate, ReplayStep, ReplayReset, ReplayMark, ReplaySend, ReplayWrite,
           ReplayCheck, Resolve
      <4> QED
        BY <1>1, <4>1 DEF Unread
    <3> QED
      BY <3>1, <3>2
  <2>5. \A w \in Workers : AboutToQueue(w, c) => AboutToQueue(w, c)'
    BY <1>1 DEF AboutToQueue
  <2> QED
    BY <1>1, <2>2, <2>3, <2>4, <2>5, WayKept, WayThere
<1> QED
  BY <1>2, <1>3

LEMMA DispatchWay ==
    ASSUME TInv, NEW c \in Commands, OnItsWay(c), NEW d \in Commands, Dispatch(d)
    PROVE  OnItsWay(c)'
<1>1. UNCHANGED <<reading, rpart, queue, terminal, wpc, wcmd>> /\ durable[c] \subseteq durable'[c]
  BY IngestAdds DEF Dispatch, readVars, submitVars, workVars, Tags
<1>2. PICK p \in Partitions, m \in Messages : Publish(p, m) \/ UNCHANGED log
  BY IngestPublishes DEF Dispatch, Tags
<1>3. ASSUME NEW w \in Workers, AboutToQueue(w, c) PROVE OnItsWay(c)'
  <2>1. AboutToQueue(w, c)'
    BY <1>1, <1>3 DEF AboutToQueue
  <2> QED
    BY <2>1, WayThere
<1> QED
  BY <1>1, <1>2, <1>3, PublishWay

LEMMA NextWay ==
    ASSUME TInv, RunInv, InFlightOwned, EngineOK, NEW c \in Commands, OnItsWay(c), Next
    PROVE  Onward(c)
<1>1. CASE Crash
  <2>1. crashes \in Nat /\ crashes' = crashes + 1
    BY <1>1 DEF Crash, TInv, TypeOK, WorldTypeOK
  <2>2. crashes' # crashes
    BY <2>1
  <2> QED
    BY <2>2 DEF Onward
<1>2. CASE Attach
  BY <1>2, SameWay DEF Attach, Onward, worldVars, submitVars, workVars
<1>3. CASE Consumer
  BY <1>3, ConsumeWay, ConsumerWay DEF Consumer
<1>4. ASSUME NEW d \in Commands, Dispatch(d) PROVE Onward(c)
  BY <1>4, DispatchWay DEF Onward
<1>5. ASSUME NEW w \in Workers, Work(w) PROVE Onward(c)
  BY <1>5, WorkWay
<1>6. ASSUME NEW o \in Operators, Operate(o) PROVE Onward(c)
  BY <1>6, OperateWay DEF Onward
<1> QED
  BY <1>1, <1>2, <1>3, <1>4, <1>5, <1>6 DEF Next

(* An accepted command sets out, unless Kafka misses it. *)
SetsOut(c) ==
    "RECEIVED" \in durable'[c] \ durable[c] =>
        OnItsWay(c)' \/ Faults \intersect {"publish", "answer"} # {}

LEMMA DispatchSetsOut ==
    ASSUME TInv, TerminalKnown, NEW c \in Commands, NEW d \in Commands, Dispatch(d)
    PROVE  SetsOut(c)
<1> SUFFICES ASSUME "RECEIVED" \in durable'[c] \ durable[c],
                    Faults \intersect {"publish", "answer"} = {}
             PROVE  OnItsWay(c)'
  BY DEF SetsOut
<1> DEFINE m == Message(c, "RECEIVED")
<1>1. d = c
  BY IngestAdds DEF Dispatch, Tags
<1>2. Publish("ground", m) /\ log' # log
  <2>1. ~Refused(c, "RECEIVED")
    BY RunParts DEF Refused
  <2>2. Publish(Partition("RECEIVED"), m)
    BY <1>1, <2>1 DEF Dispatch, Accepted
  <2>3. Partition("RECEIVED") = "ground"
    BY DEF Partition, CommandTags
  <2>4. log["ground"] \in Seq(Messages) /\ log \in [Partitions -> Seq(Messages)] /\ m \in Messages
    BY GroundLog, ReadParts, MessageTyped DEF Tags
  <2>5. Append(log["ground"], m) # log["ground"] /\ log["ground"] \o <<m, m>> # log["ground"]
    <3>1. /\ Len(Append(log["ground"], m)) = Len(log["ground"]) + 1
          /\ Len(log["ground"] \o <<m, m>>) = Len(log["ground"]) + 2
          /\ Len(log["ground"]) \in Nat
      BY <2>4
    <3> QED
      BY <3>1
  <2> QED
    BY <2>2, <2>3, <2>4, <2>5, GroundLog DEF Publish
<1>3. UNCHANGED <<reading, rpart, terminal>> /\ terminal[c] = ""
  BY DEF Dispatch, readVars, submitVars, TerminalKnown, Received
<1> DEFINE n == Len(log["ground"]) + 1
<1>4. n \in 1 .. Len(log'["ground"]) /\ log'["ground"][n] = m
  <2>1. log["ground"] \in Seq(Messages) /\ log \in [Partitions -> Seq(Messages)] /\ m \in Messages
    BY GroundLog, ReadParts, MessageTyped DEF Tags
  <2>2. log'["ground"] = Append(log["ground"], m) \/ log'["ground"] = log["ground"] \o <<m, m>>
    BY <1>2, <2>1, GroundLog DEF Publish
  <2>3. CASE log'["ground"] = Append(log["ground"], m)
    BY <2>1, <2>3
  <2>4. CASE log'["ground"] = log["ground"] \o <<m, m>>
    BY <2>1, <2>4
  <2> QED
    BY <2>2, <2>3, <2>4
<1>5. n = 1 /\ rpart = "ground" => reading = "fetch"
  BY GroundLog
<1>6. Unread(c)'
  BY <1>3, <1>4, <1>5 DEF Unread
<1> QED
  BY <1>3, <1>6, WayThere

LEMMA NextSetsOut ==
    ASSUME TInv, TerminalKnown, NEW c \in Commands, Next PROVE SetsOut(c)
<1>1. ASSUME NEW d \in Commands, Dispatch(d) PROVE SetsOut(c)
  BY <1>1, DispatchSetsOut
<1>2. ASSUME NEW w \in Workers, Work(w) PROVE SetsOut(c)
  BY <1>2, WorkGrows DEF SetsOut
<1>3. CASE UNCHANGED durable
  BY <1>3 DEF SetsOut
<1>4. CASE Crash \/ Attach \/ Consumer
  BY <1>3, <1>4 DEF Crash, Attach, Consumer, Consume, ConsumerMark, ConsumerSend, ConsumerCommit,
     worldVars
<1>5. ASSUME NEW o \in Operators, Operate(o) PROVE SetsOut(c)
  BY <1>3, <1>5 DEF Operate, ReplayStep, ReplayReset, ReplayMark, ReplaySend, ReplayWrite,
     PersistAction, ReplayCheck, Resolve, worldVars
<1> QED
  BY <1>1, <1>2, <1>4, <1>5 DEF Next

(* NoCommandSlipsAway: an accepted command that reached Kafka is unread,     *)
(* queued or with a worker until its QUEUED record is stored; only a crash, *)
(* a message read before the orchestrator was attached, a full queue and a  *)
(* QUEUED record the store did not take end that, and nothing else can.     *)
THEOREM CommandsStayOnTheirWay == Spec => NoCommandSlipsAway
<1> DEFINE Step ==
      \A c \in Commands :
         /\ OnItsWay(c) => OnItsWay(c)' \/ crashes' # crashes \/ LetGo(c)
         /\ "RECEIVED" \in durable'[c] \ durable[c] =>
              OnItsWay(c)' \/ Faults \intersect {"publish", "answer"} # {}
<1>1. ASSUME TInv, RunInv, InFlightOwned, ReadInv, TerminalKnown, Next PROVE Step
  <2>1. EngineOK
    BY <1>1 DEF ReadInv, FeedInv, ExecTrue
  <2>2. \A c \in Commands : (OnItsWay(c) => Onward(c)) /\ SetsOut(c)
    BY <1>1, <2>1, NextWay, NextSetsOut
  <2> QED
    BY <2>2 DEF Onward, SetsOut
<1>2. TInv /\ RunInv /\ InFlightOwned /\ ReadInv /\ TerminalKnown /\ [Next]_vars => [Step]_vars
  BY <1>1
<1>3. Init => TerminalKnown
  BY DEF Init, TerminalKnown
<1>4. TInv /\ OrderInv /\ TerminalKnown /\ [Next]_vars => TerminalKnown'
  BY NextTerminal
<1>5. Spec => []TerminalKnown
  BY <1>3, <1>4, OrderInductive, PTL DEF Spec
<1>6. Spec => []ReadInv
  BY ReadInductive
<1> QED
  BY <1>2, <1>5, <1>6, OrderInductive, MarksAreOwned, PTL DEF Spec, NoCommandSlipsAway
=============================================================================
