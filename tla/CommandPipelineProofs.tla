----------------------- MODULE CommandPipelineProofs -----------------------
(***************************************************************************)
(* Proofs about CommandPipeline, for any set of commands, any number of     *)
(* orchestrator workers and concurrent operators, any queue, and any        *)
(* restarts and losses.                                                     *)
(***************************************************************************)
EXTENDS CommandPipeline, TLAPS

(* The consumer's message exists while Submit is under way for it. *)
ReadingOK == reading # "fetch" => log[rpart] # <<>>

HeldOK ==
    /\ \A w \in Workers : wpc[w] # "idle" => wcmd[w] \in Commands
    /\ \A o \in Operators : opc[o] # "idle" => ocmd[o] \in Commands

TInv == TypeOK /\ ReadingOK /\ HeldOK

-----------------------------------------------------------------------------
LEMMA MessageTyped ==
    ASSUME NEW c \in Commands, NEW tag \in Tags PROVE Message(c, tag) \in Messages
BY DEF Tags, Message, StateOf, CommandTags, Messages, Lifecycles, ExecutionStates, Terminal

LEMMA PartitionTyped == ASSUME NEW tag PROVE Partition(tag) \in Partitions
BY DEF Partition, Partitions

(* Publish takes no message away. *)
LEMMA PublishTyped ==
    ASSUME log \in [Partitions -> Seq(Messages)],
           NEW p \in Partitions, NEW m \in Messages, Publish(p, m)
    PROVE  /\ log' \in [Partitions -> Seq(Messages)]
           /\ \A q \in Partitions : log[q] # <<>> => log'[q] # <<>>
<1>1. /\ log[p] \in Seq(Messages) /\ <<m, m>> \in Seq(Messages)
      /\ Append(log[p], m) \in Seq(Messages) /\ Append(log[p], m) # <<>>
      /\ log[p] \o <<m, m>> \in Seq(Messages) /\ log[p] \o <<m, m>> # <<>>
  OBVIOUS
<1>2. \A q \in Partitions : log[q] \in Seq(Messages)
  OBVIOUS
<1>3. CASE log' = [log EXCEPT ![p] = Append(@, m)]
  BY <1>1, <1>2, <1>3
<1>4. CASE UNCHANGED log
  BY <1>2, <1>4
<1>5. CASE log' = [log EXCEPT ![p] = @ \o <<m, m>>]
  BY <1>1, <1>2, <1>5
<1>6. QED
  BY <1>3, <1>4, <1>5 DEF Publish

LEMMA AcceptedTyped ==
    ASSUME TypeOK, NEW c \in Commands, NEW tag \in Tags, Accepted(c, tag)
    PROVE  /\ durable' \in [Commands -> SUBSET Tags]
           /\ log' \in [Partitions -> Seq(Messages)]
           /\ \A q \in Partitions : log[q] # <<>> => log'[q] # <<>>
<1>1. durable' \in [Commands -> SUBSET Tags]
  BY DEF TypeOK, WorldTypeOK, KafkaTypeOK, SubmitTypeOK, Accepted
<1>2. log \in [Partitions -> Seq(Messages)]
  BY DEF TypeOK, WorldTypeOK, KafkaTypeOK, SubmitTypeOK
<1>3. QED
  BY <1>1, <1>2, MessageTyped, PartitionTyped, PublishTyped DEF Accepted

LEMMA RefusedTyped ==
    ASSUME TypeOK, NEW c \in Commands, NEW tag \in Tags, Refused(c, tag)
    PROVE  /\ durable' \in [Commands -> SUBSET Tags]
           /\ log' \in [Partitions -> Seq(Messages)]
           /\ \A q \in Partitions : log[q] # <<>> => log'[q] # <<>>
<1>1. log \in [Partitions -> Seq(Messages)] /\ durable \in [Commands -> SUBSET Tags]
  BY DEF TypeOK, WorldTypeOK, KafkaTypeOK, SubmitTypeOK
<1>2. durable' \in [Commands -> SUBSET Tags] /\ log' = log
  BY <1>1 DEF Refused
<1>3. QED
  BY <1>1, <1>2

LEMMA PersistTyped ==
    ASSUME TypeOK, NEW c \in Commands, NEW e \in Entries, PersistEntry(c, e)
    PROVE  /\ dlqStored' \in [Commands -> Entries]
           /\ log' \in [Partitions -> Seq(Messages)]
           /\ \A q \in Partitions : log[q] # <<>> => log'[q] # <<>>
<1>1. log \in [Partitions -> Seq(Messages)] /\ dlqStored \in [Commands -> Entries]
  BY DEF TypeOK, WorldTypeOK, KafkaTypeOK, SubmitTypeOK
<1>2. CASE dlqStored' \in {dlqStored, [dlqStored EXCEPT ![c] = e]} /\ UNCHANGED log
  BY <1>1, <1>2
<1>3. CASE /\ dlqStored' = [dlqStored EXCEPT ![c] = e]
           /\ Publish("ground", [cmd |-> c, kind |-> "event", state |-> e.exec])
  <2>1. /\ "ground" \in Partitions
        /\ [cmd |-> c, kind |-> "event", state |-> e.exec] \in Messages
    BY DEF Partitions, Messages, Entries, Lifecycles, ExecutionStates, Terminal
  <2>2. QED
    BY <1>1, <1>3, <2>1, PublishTyped
<1>4. QED
  BY <1>2, <1>3 DEF PersistEntry

LEMMA SendTyped ==
    ASSUME TypeOK, NEW c \in Commands, Send(c)
    PROVE  queue' \in Seq(Commands) /\ inFlight' \subseteq Commands /\ terminal' = terminal
<1>1. queue \in Seq(Commands) /\ inFlight \subseteq Commands
  BY DEF TypeOK, WorldTypeOK, KafkaTypeOK, SubmitTypeOK
<1>2. Append(queue, c) \in Seq(Commands)
  BY <1>1
<1>3. CASE Len(queue) < QueueCapacity
  BY <1>1, <1>2, <1>3 DEF Send
<1>4. CASE ~(Len(queue) < QueueCapacity)
  BY <1>1, <1>4 DEF Send
<1>5. QED
  BY <1>3, <1>4

-----------------------------------------------------------------------------
(* Type correctness.  The variables an action leaves alone keep their type. *)
LEMMA Frames ==
    /\ WorldTypeOK /\ UNCHANGED worldVars => WorldTypeOK'
    /\ KafkaTypeOK /\ UNCHANGED log => KafkaTypeOK'
    /\ ReadTypeOK /\ UNCHANGED readVars => ReadTypeOK'
    /\ SubmitTypeOK /\ UNCHANGED submitVars => SubmitTypeOK'
    /\ WorkTypeOK /\ UNCHANGED workVars => WorkTypeOK'
    /\ DlqTypeOK /\ UNCHANGED dlqVars => DlqTypeOK'
    /\ ReadingOK /\ UNCHANGED <<reading, rpart, log>> => ReadingOK'
    /\ HeldOK /\ UNCHANGED <<wpc, wcmd, opc, ocmd>> => HeldOK'
<1>1. WorldTypeOK /\ UNCHANGED worldVars => WorldTypeOK'
  BY DEF WorldTypeOK, worldVars
<1>2. KafkaTypeOK /\ UNCHANGED log => KafkaTypeOK'
  BY DEF KafkaTypeOK
<1>3. ReadTypeOK /\ UNCHANGED readVars => ReadTypeOK'
  BY DEF ReadTypeOK, readVars
<1>4. SubmitTypeOK /\ UNCHANGED submitVars => SubmitTypeOK'
  BY DEF SubmitTypeOK, submitVars
<1>5. WorkTypeOK /\ UNCHANGED workVars => WorkTypeOK'
  BY DEF WorkTypeOK, workVars
<1>6. DlqTypeOK /\ UNCHANGED dlqVars => DlqTypeOK'
  BY DEF DlqTypeOK, dlqVars
<1>7. ReadingOK /\ UNCHANGED <<reading, rpart, log>> => ReadingOK'
  BY DEF ReadingOK
<1>8. HeldOK /\ UNCHANGED <<wpc, wcmd, opc, ocmd>> => HeldOK'
  BY DEF HeldOK
<1>9. QED
  BY <1>1, <1>2, <1>3, <1>4, <1>5, <1>6, <1>7, <1>8

LEMMA InitTInv == Init => TInv
<1> SUFFICES ASSUME Init PROVE TInv
  OBVIOUS
<1>1. WorldTypeOK
  BY DEF Init, WorldTypeOK, Entries, NoEntry
<1>2. KafkaTypeOK
  <2>1. <<>> \in Seq(Messages)
    OBVIOUS
  <2>2. QED
    BY <2>1 DEF Init, KafkaTypeOK
<1>3. ReadTypeOK
  BY DEF Init, ReadTypeOK, Partitions
<1>4. SubmitTypeOK
  <2>1. <<>> \in Seq(Commands)
    OBVIOUS
  <2>2. QED
    BY <2>1 DEF Init, SubmitTypeOK
<1>5. WorkTypeOK
  BY DEF Init, WorkTypeOK, WorkerPcs
<1>6. DlqTypeOK
  BY DEF Init, DlqTypeOK, Entries, NoEntry
<1>7. ReadingOK /\ HeldOK
  BY DEF Init, ReadingOK, HeldOK
<1>8. QED
  BY <1>1, <1>2, <1>3, <1>4, <1>5, <1>6, <1>7 DEF TInv, TypeOK

LEMMA CrashTInv == ASSUME TInv, Crash PROVE TInv'
<1>1. WorldTypeOK' /\ KafkaTypeOK'
  <2>1. UNCHANGED <<durable, dlqStored, attempts, applied, rejected>> /\ crashes' = crashes + 1
    BY DEF Crash
  <2>2. WorldTypeOK'
    BY <2>1 DEF TInv, TypeOK, WorldTypeOK
  <2>3. KafkaTypeOK'
    BY Frames DEF TInv, TypeOK, Crash
  <2>4. QED
    BY <2>2, <2>3
<1>2. ReadTypeOK' /\ SubmitTypeOK'
  <2>1. ReadTypeOK'
    BY DEF Crash, ReadTypeOK, Partitions
  <2>2. <<>> \in Seq(Commands)
    OBVIOUS
  <2>3. SubmitTypeOK'
    BY <2>2 DEF Crash, SubmitTypeOK
  <2>4. QED
    BY <2>1, <2>3
<1>3. WorkTypeOK'
  BY DEF Crash, WorkTypeOK, WorkerPcs
<1>4. dlq' \in [Commands -> Entries]
  <2>1. \A e \in Entries : [e EXCEPT !.exec = ""] \in Entries
    BY DEF Entries
  <2>2. QED
    BY <2>1 DEF TInv, TypeOK, WorldTypeOK, Crash
<1>5. DlqTypeOK'
  BY <1>4 DEF Crash, DlqTypeOK
<1>6. ReadingOK' /\ HeldOK'
  BY DEF Crash, ReadingOK, HeldOK
<1>7. QED
  BY <1>1, <1>2, <1>3, <1>5, <1>6 DEF TInv, TypeOK

LEMMA AttachTInv == ASSUME TInv, Attach PROVE TInv'
<1>1. ReadTypeOK'
  BY DEF TInv, TypeOK, ReadTypeOK, Attach
<1>2. /\ UNCHANGED worldVars /\ UNCHANGED log /\ UNCHANGED submitVars
      /\ UNCHANGED workVars /\ UNCHANGED dlqVars /\ UNCHANGED <<reading, rpart>>
  BY DEF Attach
<1>3. UNCHANGED <<reading, rpart, log>> /\ UNCHANGED <<wpc, wcmd, opc, ocmd>>
  BY <1>2 DEF workVars, dlqVars
<1>4. QED
  BY <1>1, <1>2, <1>3, Frames DEF TInv, TypeOK

(* Ingest, whatever it answers, keeps the types and the consumer's message. *)
LEMMA IngestTInv ==
    ASSUME TInv, NEW c \in Commands, NEW tag \in Tags, Accepted(c, tag) \/ Refused(c, tag),
           UNCHANGED <<dlqStored, attempts, applied, rejected, crashes, readVars>>
    PROVE  WorldTypeOK' /\ KafkaTypeOK' /\ ReadTypeOK' /\ ReadingOK'
<1>1. /\ durable' \in [Commands -> SUBSET Tags]
      /\ log' \in [Partitions -> Seq(Messages)]
      /\ \A q \in Partitions : log[q] # <<>> => log'[q] # <<>>
  BY AcceptedTyped, RefusedTyped DEF TInv
<1>2. WorldTypeOK'
  BY <1>1 DEF TInv, TypeOK, WorldTypeOK
<1>3. KafkaTypeOK'
  BY <1>1 DEF TInv, TypeOK, KafkaTypeOK
<1>4. ReadTypeOK' /\ rpart \in Partitions
  BY Frames DEF TInv, TypeOK, ReadTypeOK
<1>5. ReadingOK'
  <2>1. reading' = reading /\ rpart' = rpart
    BY DEF readVars
  <2>2. QED
    BY <1>1, <1>4, <2>1 DEF TInv, ReadingOK
<1>6. QED
  BY <1>2, <1>3, <1>4, <1>5

LEMMA DispatchTInv == ASSUME TInv, NEW c \in Commands, Dispatch(c) PROVE TInv'
<1>1. WorldTypeOK' /\ KafkaTypeOK' /\ ReadTypeOK' /\ ReadingOK'
  BY IngestTInv DEF Dispatch, Tags
<1>2. SubmitTypeOK' /\ WorkTypeOK' /\ DlqTypeOK'
  BY Frames DEF TInv, TypeOK, Dispatch
<1>3. HeldOK'
  BY Frames DEF TInv, Dispatch, workVars, dlqVars
<1>4. QED
  BY <1>1, <1>2, <1>3 DEF TInv, TypeOK

LEMMA NextMessageTyped ==
    ASSUME TInv, NEW p \in Partitions, log[p] # <<>>
    PROVE  Next1(p) \in Messages /\ Next1(p).cmd \in Commands
<1>1. log[p] \in Seq(Messages)
  BY DEF TInv, TypeOK, KafkaTypeOK
<1>2. Next1(p) \in Messages
  BY <1>1 DEF Next1
<1>3. QED
  BY <1>2 DEF Messages

LEMMA ConsumeTInv == ASSUME TInv, NEW p \in Partitions, Consume(p) PROVE TInv'
<1> DEFINE m == Next1(p)
<1>1. m \in Messages /\ m.cmd \in Commands /\ log[p] # <<>>
  BY NextMessageTyped DEF Consume
<1>2. exec' \in [Commands -> ExecutionStates \union {""}]
  <2>1. exec \in [Commands -> ExecutionStates \union {""}]
    BY DEF TInv, TypeOK, ReadTypeOK
  <2>2. CASE exec' = exec
    BY <2>1, <2>2
  <2>3. CASE Reconcile(m)
    <3>1. m.state \notin {"RECEIVED", ""} => m.state \in ExecutionStates
      BY <1>1 DEF Messages, Lifecycles
    <3>2. QED
      BY <1>1, <2>1, <2>3, <3>1 DEF Reconcile
  <2>4. QED
    BY <2>2, <2>3 DEF Consume, Routed
<1>3. engine' \in [Commands -> Lifecycles \union {""}]
  <2>1. engine \in [Commands -> Lifecycles \union {""}] /\ m.state \in Lifecycles \union {""}
    BY <1>1 DEF TInv, TypeOK, ReadTypeOK, Messages
  <2>2. engine' = engine \/ engine' = [engine EXCEPT ![m.cmd] = m.state]
    BY DEF Consume, Routed
  <2>3. QED
    BY <1>1, <2>1, <2>2
<1>4. CASE IsForOrchestrator(m)
  <2>1. ReadTypeOK' /\ KafkaTypeOK' /\ ReadingOK'
    BY <1>1, <1>2, <1>3, <1>4 DEF TInv, TypeOK, ReadTypeOK, KafkaTypeOK, Consume, ReadingOK
  <2>2. QED
    BY <2>1, Frames DEF TInv, TypeOK, Consume, workVars, dlqVars
<1>5. CASE ~IsForOrchestrator(m)
  <2>1. /\ log' = [log EXCEPT ![p] = Tail(@)] /\ UNCHANGED <<reading, rpart, attached>>
        /\ reading = "fetch"
    BY <1>5 DEF Consume
  <2>2. ReadTypeOK'
    BY <1>2, <1>3, <2>1 DEF TInv, TypeOK, ReadTypeOK
  <2>3. KafkaTypeOK'
    <3>1. log[p] \in Seq(Messages) /\ Tail(log[p]) \in Seq(Messages)
      BY <1>1 DEF TInv, TypeOK, KafkaTypeOK
    <3>2. QED
      BY <2>1, <3>1 DEF TInv, TypeOK, KafkaTypeOK
  <2>4. ReadingOK'
    BY <2>1 DEF ReadingOK
  <2>5. QED
    BY <2>2, <2>3, <2>4, Frames DEF TInv, TypeOK, Consume, workVars, dlqVars
<1>6. QED
  BY <1>4, <1>5

LEMMA SubmitTInv ==
    ASSUME TInv, ConsumerMark \/ ConsumerSend \/ ConsumerCommit PROVE TInv'
<1>1. rpart \in Partitions /\ (reading # "fetch" => Next1(rpart).cmd \in Commands)
  BY NextMessageTyped DEF TInv, TypeOK, ReadTypeOK, ReadingOK
<1>2. CASE ConsumerMark
  <2>1. ReadTypeOK' /\ SubmitTypeOK'
    BY <1>1, <1>2 DEF TInv, TypeOK, ReadTypeOK, SubmitTypeOK, ConsumerMark
  <2>2. ReadingOK'
    BY <1>2 DEF TInv, ReadingOK, ConsumerMark
  <2>3. QED
    BY <1>2, <2>1, <2>2, Frames DEF TInv, TypeOK, ConsumerMark, workVars, dlqVars
<1>3. CASE ConsumerSend
  <2>1. ReadTypeOK'
    BY <1>3 DEF TInv, TypeOK, ReadTypeOK, ConsumerSend
  <2>2. SubmitTypeOK'
    BY <1>1, <1>3, SendTyped DEF TInv, TypeOK, SubmitTypeOK, ConsumerSend
  <2>3. ReadingOK'
    BY <1>3 DEF TInv, ReadingOK, ConsumerSend
  <2>4. QED
    BY <1>3, <2>1, <2>2, <2>3, Frames DEF TInv, TypeOK, ConsumerSend, workVars, dlqVars
<1>4. CASE ConsumerCommit
  <2>1. /\ log' = [log EXCEPT ![rpart] = Tail(@)] /\ log[rpart] # <<>>
        /\ reading' = "fetch" /\ UNCHANGED <<attached, rpart, engine, exec>>
    BY <1>4 DEF TInv, ReadingOK, ConsumerCommit
  <2>2. ReadTypeOK'
    BY <2>1 DEF TInv, TypeOK, ReadTypeOK
  <2>3. KafkaTypeOK'
    <3>1. log[rpart] \in Seq(Messages) /\ Tail(log[rpart]) \in Seq(Messages)
      BY <1>1, <2>1 DEF TInv, TypeOK, KafkaTypeOK
    <3>2. QED
      BY <1>1, <2>1, <3>1 DEF TInv, TypeOK, KafkaTypeOK
  <2>4. ReadingOK'
    BY <2>1 DEF ReadingOK
  <2>5. QED
    BY <1>4, <2>2, <2>3, <2>4, Frames DEF TInv, TypeOK, ConsumerCommit, workVars, dlqVars
<1>5. QED
  BY <1>2, <1>3, <1>4

-----------------------------------------------------------------------------
LEMMA WorkerParts ==
    ASSUME TInv
    PROVE  /\ wpc \in [Workers -> WorkerPcs]
           /\ wcmd \in [Workers -> Commands \union {NoCommand}]
           /\ wattempt \in [Workers -> Nat]
           /\ failure \in [Workers -> {"FAILED", "TIMEOUT"}]
           /\ \A w \in Workers : wpc[w] # "idle" => wcmd[w] \in Commands
BY DEF TInv, TypeOK, WorkTypeOK, HeldOK

\* A worker that moves on keeps its command.
LEMMA HeldKept ==
    ASSUME TInv, NEW w \in Workers, wpc[w] # "idle", NEW pc,
           wpc' = [wpc EXCEPT ![w] = pc], UNCHANGED <<wcmd, opc, ocmd>>
    PROVE  HeldOK'
<1>1. HeldOK /\ wpc \in [Workers -> WorkerPcs]
  BY DEF TInv, TypeOK, WorkTypeOK
<1>2. QED
  BY <1>1 DEF HeldOK

LEMMA FinishTyped ==
    ASSUME TInv, NEW w \in Workers, wpc[w] # "idle", NEW outcome \in {"COMPLETED", "FAILED", "TIMEOUT"},
           NEW pc \in WorkerPcs, Finish(w, outcome, pc)
    PROVE  SubmitTypeOK' /\ wpc' \in [Workers -> WorkerPcs]
<1>1. wcmd[w] \in Commands
  BY WorkerParts
<1>2. SubmitTypeOK'
  BY <1>1 DEF TInv, TypeOK, SubmitTypeOK, Finish
<1>3. QED
  BY <1>2, WorkerParts DEF Finish

LEMMA EmitTInv ==
    ASSUME TInv, NEW w \in Workers, NEW pc, pc # "idle", NEW tag \in Tags, NEW next \in WorkerPcs,
           EmitOrGiveUp(w, pc, tag, next), wattempt' \in [Workers -> Nat]
    PROVE  TInv'
<1>1. wpc[w] = pc /\ wcmd[w] \in Commands
  BY WorkerParts DEF EmitOrGiveUp
<1>2. WorldTypeOK' /\ KafkaTypeOK' /\ ReadTypeOK' /\ ReadingOK'
  BY <1>1, IngestTInv DEF EmitOrGiveUp
<1>3. PICK pc2 \in WorkerPcs : wpc' = [wpc EXCEPT ![w] = pc2]
  <2>1. "idle" \in WorkerPcs
    BY DEF WorkerPcs
  <2>2. QED
    BY <2>1 DEF EmitOrGiveUp, Finish
<1>4. SubmitTypeOK'
  <2>1. "idle" \in WorkerPcs
    BY DEF WorkerPcs
  <2>2. CASE UNCHANGED submitVars
    BY <2>2, Frames DEF TInv, TypeOK
  <2>3. CASE Finish(w, "FAILED", "idle")
    BY <1>1, <2>1, <2>3, FinishTyped
  <2>4. QED
    BY <2>2, <2>3 DEF EmitOrGiveUp
<1>5. UNCHANGED <<wcmd, failure>> /\ UNCHANGED dlqVars
  BY DEF EmitOrGiveUp
<1>6. WorkTypeOK'
  BY <1>3, <1>5, WorkerParts DEF WorkTypeOK
<1>7. HeldOK'
  BY <1>1, <1>3, <1>5, HeldKept DEF dlqVars
<1>8. QED
  BY <1>2, <1>4, <1>5, <1>6, <1>7, Frames DEF TInv, TypeOK

LEMMA EmitActionsTInv ==
    ASSUME TInv, NEW w \in Workers,
           \/ EmitQueued(w) \/ EmitSent(w) \/ EmitAck(w) \/ EmitExecuting(w) \/ EmitCompleted(w)
    PROVE  TInv'
<1>1. /\ {"QUEUED", "SENT", "ACK", "EXECUTING", "COMPLETED"} \subseteq Tags
      /\ {"sent", "attempt", "executing", "completed", "telemetry"} \subseteq WorkerPcs
  BY DEF Tags, WorkerPcs, RunPcs
<1>2. wattempt' \in [Workers -> Nat]
  BY WorkerParts DEF EmitQueued, EmitSent, EmitAck, EmitExecuting, EmitCompleted
<1>3. CASE EmitQueued(w)
  BY <1>1, <1>2, <1>3, EmitTInv DEF EmitQueued
<1>4. CASE EmitSent(w)
  BY <1>1, <1>2, <1>4, EmitTInv DEF EmitSent
<1>5. CASE EmitAck(w)
  BY <1>1, <1>2, <1>5, EmitTInv DEF EmitAck
<1>6. CASE EmitExecuting(w)
  BY <1>1, <1>2, <1>6, EmitTInv DEF EmitExecuting
<1>7. CASE EmitCompleted(w)
  BY <1>1, <1>2, <1>7, EmitTInv DEF EmitCompleted
<1>8. QED
  BY <1>3, <1>4, <1>5, <1>6, <1>7

LEMMA TakeTInv == ASSUME TInv, NEW w \in Workers, Take(w) PROVE TInv'
<1>1. queue \in Seq(Commands) /\ queue # <<>>
  BY DEF TInv, TypeOK, SubmitTypeOK, Take
<1>2. Head(queue) \in Commands /\ Tail(queue) \in Seq(Commands)
  BY <1>1
<1>3. SubmitTypeOK'
  BY <1>2 DEF TInv, TypeOK, SubmitTypeOK, Take
<1>4. WorkTypeOK'
  BY <1>2, WorkerParts DEF WorkTypeOK, Take, WorkerPcs
<1>5. HeldOK'
  BY <1>2, WorkerParts DEF TInv, HeldOK, Take, dlqVars
<1>6. UNCHANGED <<reading, rpart, log>>
  BY DEF Take, readVars
<1>7. QED
  BY <1>3, <1>4, <1>5, <1>6, Frames DEF TInv, TypeOK, Take

(* What one Execute does: the command is applied, rejected, or fails.        *)
LEMMA ExecuteParts ==
    ASSUME NEW w \in Workers, Execute(w)
    PROVE  /\ wpc[w] = "attempt"
           /\ attempts' = [attempts EXCEPT ![wcmd[w]] = @ + 1]
           /\ UNCHANGED <<durable, dlqStored, crashes, log, wcmd, wattempt>>
           /\ UNCHANGED readVars /\ UNCHANGED submitVars /\ UNCHANGED dlqVars
           /\ \/ /\ applied' = applied \union {wcmd[w]} /\ rejected' = rejected
                 /\ wpc' = [wpc EXCEPT ![w] = "ack"] /\ failure' = failure
              \/ /\ applied' = applied /\ rejected' = rejected \union {wcmd[w]}
                 /\ wpc' = [wpc EXCEPT ![w] = "fail"]
                 /\ failure' = [failure EXCEPT ![w] = "FAILED"]
              \/ /\ applied' = applied /\ rejected' = rejected
                 /\ wpc' = [wpc EXCEPT ![w] = IF wattempt[w] = MaxAttempts THEN "fail" ELSE "retry"]
                 /\ \E f \in {"FAILED", "TIMEOUT"} : failure' = [failure EXCEPT ![w] = f]
BY DEF Execute, Applies, Rejects, FailsUntil, Answered

LEMMA ExecuteTInv == ASSUME TInv, NEW w \in Workers, Execute(w) PROVE TInv'
<1>1. wpc[w] # "idle" /\ wcmd[w] \in Commands
  BY ExecuteParts, WorkerParts
<1>2. PICK pc \in WorkerPcs : wpc' = [wpc EXCEPT ![w] = pc]
  BY ExecuteParts DEF WorkerPcs, RunPcs
<1>3. WorldTypeOK'
  <2>1. /\ UNCHANGED <<durable, dlqStored, crashes>>
        /\ attempts' = [attempts EXCEPT ![wcmd[w]] = @ + 1]
        /\ applied' \subseteq applied \union {wcmd[w]}
        /\ rejected' \subseteq rejected \union {wcmd[w]}
    BY ExecuteParts
  <2>2. QED
    BY <1>1, <2>1 DEF TInv, TypeOK, WorldTypeOK
<1>4. failure' \in [Workers -> {"FAILED", "TIMEOUT"}]
  BY ExecuteParts, WorkerParts
<1>5. WorkTypeOK'
  BY <1>2, <1>4, ExecuteParts, WorkerParts DEF WorkTypeOK
<1>6. HeldOK'
  BY <1>1, <1>2, ExecuteParts, HeldKept DEF dlqVars
<1>7. UNCHANGED <<reading, rpart, log>>
  BY ExecuteParts DEF readVars
<1>8. QED
  BY <1>3, <1>5, <1>6, <1>7, ExecuteParts, Frames DEF TInv, TypeOK

LEMMA ReportTInv ==
    ASSUME TInv, NEW w \in Workers, EmitRetry(w) \/ EmitTelemetry(w) \/ EmitFailure(w)
    PROVE  TInv'
<1>1. wpc[w] # "idle" /\ wcmd[w] \in Commands /\ failure[w] \in {"FAILED", "TIMEOUT"}
  BY WorkerParts DEF EmitRetry, EmitTelemetry, EmitFailure
<1>2. {"RETRY", "TELEMETRY", "FAILED", "TIMEOUT"} \subseteq Tags /\ {"idle", "attempt", "enqueue"} \subseteq WorkerPcs
  BY DEF Tags, WorkerPcs, RunPcs
<1>3. WorldTypeOK' /\ KafkaTypeOK' /\ ReadTypeOK' /\ ReadingOK'
  <2>1. CASE EmitRetry(w)
    BY <1>1, <1>2, <2>1, IngestTInv DEF EmitRetry
  <2>2. CASE EmitTelemetry(w)
    BY <1>1, <1>2, <2>2, IngestTInv DEF EmitTelemetry
  <2>3. CASE EmitFailure(w)
    BY <1>1, <1>2, <2>3, IngestTInv DEF EmitFailure
  <2>4. QED
    BY <2>1, <2>2, <2>3
<1>4. SubmitTypeOK'
  <2>1. CASE EmitRetry(w)
    BY <2>1, Frames DEF TInv, TypeOK, EmitRetry
  <2>2. CASE EmitTelemetry(w)
    BY <1>1, <1>2, <2>2, FinishTyped DEF EmitTelemetry
  <2>3. CASE EmitFailure(w)
    BY <1>1, <1>2, <2>3, FinishTyped DEF EmitFailure
  <2>4. QED
    BY <2>1, <2>2, <2>3
<1>5. PICK pc \in WorkerPcs : wpc' = [wpc EXCEPT ![w] = pc]
  BY <1>2 DEF EmitRetry, EmitTelemetry, EmitFailure, Finish
<1>6. UNCHANGED <<wcmd, failure>> /\ UNCHANGED dlqVars /\ wattempt' \in [Workers -> Nat]
  BY WorkerParts DEF EmitRetry, EmitTelemetry, EmitFailure
<1>7. WorkTypeOK'
  BY <1>5, <1>6, WorkerParts DEF WorkTypeOK
<1>8. HeldOK'
  BY <1>1, <1>5, <1>6, HeldKept DEF dlqVars
<1>9. QED
  BY <1>3, <1>4, <1>6, <1>7, <1>8, Frames DEF TInv, TypeOK

LEMMA DlqParts ==
    ASSUME TInv
    PROVE  /\ dlq \in [Commands -> Entries]
           /\ opc \in [Operators -> {"idle", "reset", "mark", "send", "write", "replayed", "resolved"}]
           /\ ocmd \in [Operators -> Commands \union {NoCommand}]
           /\ \A o \in Operators : opc[o] # "idle" => ocmd[o] \in Commands
BY DEF TInv, TypeOK, DlqTypeOK, HeldOK

LEMMA EntryTyped ==
    ASSUME NEW s \in {"none", "PENDING", "REPLAYED", "RESOLVED"}, NEW x \in {"", "FAILED", "TIMEOUT"}
    PROVE  [state |-> s, exec |-> x] \in Entries
BY DEF Entries

LEMMA StoredTInv ==
    ASSUME TInv, NEW c \in Commands, NEW e \in Entries, PersistEntry(c, e),
           UNCHANGED <<durable, attempts, applied, rejected, crashes, readVars>>
    PROVE  WorldTypeOK' /\ KafkaTypeOK' /\ ReadTypeOK' /\ ReadingOK'
<1>1. /\ dlqStored' \in [Commands -> Entries]
      /\ log' \in [Partitions -> Seq(Messages)]
      /\ \A q \in Partitions : log[q] # <<>> => log'[q] # <<>>
  BY PersistTyped DEF TInv
<1>2. WorldTypeOK'
  BY <1>1 DEF TInv, TypeOK, WorldTypeOK
<1>3. KafkaTypeOK'
  BY <1>1 DEF TInv, TypeOK, KafkaTypeOK
<1>4. ReadTypeOK' /\ rpart \in Partitions
  BY Frames DEF TInv, TypeOK, ReadTypeOK
<1>5. ReadingOK'
  <2>1. reading' = reading /\ rpart' = rpart
    BY DEF readVars
  <2>2. QED
    BY <1>1, <1>4, <2>1 DEF TInv, ReadingOK
<1>6. QED
  BY <1>2, <1>3, <1>4, <1>5

LEMMA DeadLetterTInv ==
    ASSUME TInv, NEW w \in Workers, Enqueue(w) \/ PersistEnqueued(w) PROVE TInv'
<1>1. /\ wpc[w] # "idle" /\ wcmd[w] \in Commands
      /\ [state |-> "PENDING", exec |-> failure[w]] \in Entries
  BY WorkerParts, EntryTyped DEF Enqueue, PersistEnqueued
<1>2. PICK pc \in WorkerPcs : wpc' = [wpc EXCEPT ![w] = pc]
  BY DEF Enqueue, PersistEnqueued, WorkerPcs
<1>3. UNCHANGED <<wcmd, wattempt, failure, opc, ocmd>>
  BY DEF Enqueue, PersistEnqueued, dlqVars
<1>4. WorkTypeOK'
  BY <1>2, <1>3, WorkerParts DEF WorkTypeOK
<1>5. HeldOK'
  BY <1>1, <1>2, <1>3, HeldKept
<1>6. CASE Enqueue(w)
  <2>1. DlqTypeOK'
    BY <1>1, <1>3, <1>6, DlqParts DEF DlqTypeOK, Enqueue
  <2>2. UNCHANGED <<reading, rpart, log>>
    BY <1>6 DEF Enqueue, readVars
  <2>3. QED
    BY <1>4, <1>5, <1>6, <2>1, <2>2, Frames DEF TInv, TypeOK, Enqueue
<1>7. CASE PersistEnqueued(w)
  <2>1. WorldTypeOK' /\ KafkaTypeOK' /\ ReadTypeOK' /\ ReadingOK'
    BY <1>1, <1>7, StoredTInv DEF PersistEnqueued
  <2>2. QED
    BY <1>4, <1>5, <1>7, <2>1, Frames DEF TInv, TypeOK, PersistEnqueued
<1>8. QED
  BY <1>6, <1>7

LEMMA OperateTInv ==
    ASSUME TInv, NEW o \in Operators, Operate(o) PROVE TInv'
<1>1. ASSUME NEW c \in Commands, ReplayCheck(o, c) \/ Resolve(o, c) PROVE TInv'
  <2>1. dlq' \in [Commands -> Entries]
    <3>1. [dlq[c] EXCEPT !.state = "RESOLVED"] \in Entries
      BY DlqParts DEF Entries
    <3>2. dlq' = dlq \/ dlq' = [dlq EXCEPT ![c] = [dlq[c] EXCEPT !.state = "RESOLVED"]]
      BY <1>1 DEF ReplayCheck, Resolve
    <3>3. QED
      BY <3>1, <3>2, DlqParts
  <2>2. ocmd' = [ocmd EXCEPT ![o] = c] /\ \E pc \in {"reset", "resolved"} : opc' = [opc EXCEPT ![o] = pc]
    BY <1>1 DEF ReplayCheck, Resolve, GoTo
  <2>3. DlqTypeOK'
    BY <2>1, <2>2, DlqParts DEF DlqTypeOK
  <2>4. UNCHANGED <<reading, rpart, log>> /\ UNCHANGED <<wpc, wcmd>>
    BY <1>1 DEF ReplayCheck, Resolve, readVars, workVars
  <2>5. HeldOK'
    BY <2>2, <2>4, WorkerParts, DlqParts DEF HeldOK
  <2>6. /\ UNCHANGED worldVars /\ UNCHANGED log /\ UNCHANGED readVars
        /\ UNCHANGED submitVars /\ UNCHANGED workVars
    BY <1>1 DEF ReplayCheck, Resolve
  <2>7. QED
    BY <2>3, <2>4, <2>5, <2>6, Frames DEF TInv, TypeOK
<1>2. ASSUME ReplayStep(o) PROVE TInv'
  <2>1. opc[o] # "idle" /\ ocmd[o] \in Commands
    BY <1>2, DlqParts
       DEF ReplayStep, ReplayReset, ReplayMark, ReplaySend, ReplayWrite, PersistAction
  <2>2. dlq' \in [Commands -> Entries]
    <3>1. [dlq[ocmd[o]] EXCEPT !.state = "REPLAYED"] \in Entries
      BY <2>1, DlqParts DEF Entries
    <3>2. \/ dlq' = dlq
          \/ dlq' = [dlq EXCEPT ![ocmd[o]] = [dlq[ocmd[o]] EXCEPT !.state = "REPLAYED"]]
      BY <1>2 DEF ReplayStep, ReplayReset, ReplayMark, ReplaySend, ReplayWrite, PersistAction
    <3>3. QED
      BY <2>1, <3>1, <3>2, DlqParts
  <2>3. /\ UNCHANGED ocmd
        /\ \E pc \in {"idle", "mark", "send", "write", "replayed"} : opc' = [opc EXCEPT ![o] = pc]
    BY <1>2 DEF ReplayStep, ReplayReset, ReplayMark, ReplaySend, ReplayWrite, PersistAction, GoTo
  <2>4. DlqTypeOK'
    BY <2>2, <2>3, DlqParts DEF DlqTypeOK
  <2>5. UNCHANGED <<wpc, wcmd>> /\ UNCHANGED workVars /\ UNCHANGED readVars
    BY <1>2 DEF ReplayStep, ReplayReset, ReplayMark, ReplaySend, ReplayWrite, PersistAction,
       workVars
  <2>6. HeldOK'
    BY <2>1, <2>3, <2>5, WorkerParts, DlqParts DEF HeldOK
  <2>7. SubmitTypeOK'
    <3>1. CASE ReplayReset(o)
      BY <2>1, <3>1 DEF TInv, TypeOK, SubmitTypeOK, ReplayReset
    <3>2. CASE ReplayMark(o)
      BY <2>1, <3>2 DEF TInv, TypeOK, SubmitTypeOK, ReplayMark
    <3>3. CASE ReplaySend(o)
      BY <2>1, <3>3, SendTyped DEF TInv, TypeOK, SubmitTypeOK, ReplaySend
    <3>4. CASE UNCHANGED submitVars
      BY <3>4, Frames DEF TInv, TypeOK
    <3>5. QED
      BY <1>2, <3>1, <3>2, <3>3, <3>4 DEF ReplayStep, ReplayWrite, PersistAction
  <2>8. WorldTypeOK' /\ KafkaTypeOK' /\ ReadTypeOK' /\ ReadingOK'
    <3>1. CASE PersistAction(o)
      <4>1. dlq[ocmd[o]].exec \in {"", "FAILED", "TIMEOUT"}
        BY <2>1, DlqParts DEF Entries
      <4>2. QED
        BY <2>1, <3>1, <4>1, EntryTyped, StoredTInv DEF PersistAction
    <3>2. CASE UNCHANGED worldVars /\ UNCHANGED log
      <4>1. UNCHANGED <<reading, rpart, log>>
        BY <2>5, <3>2 DEF readVars
      <4>2. QED
        BY <2>5, <3>2, <4>1, Frames DEF TInv, TypeOK
    <3>3. QED
      BY <1>2, <3>1, <3>2 DEF ReplayStep, ReplayReset, ReplayMark, ReplaySend, ReplayWrite
  <2>9. QED
    BY <2>4, <2>5, <2>6, <2>7, <2>8, Frames DEF TInv, TypeOK
<1>3. QED
  BY <1>1, <1>2 DEF Operate

LEMMA NextTInv == TInv /\ [Next]_vars => TInv'
<1> SUFFICES ASSUME TInv, [Next]_vars PROVE TInv'
  OBVIOUS
<1>1. CASE Crash \/ Attach
  BY <1>1, CrashTInv, AttachTInv
<1>2. CASE Consumer
  BY <1>2, ConsumeTInv, SubmitTInv DEF Consumer
<1>3. ASSUME NEW c \in Commands, Dispatch(c) PROVE TInv'
  BY <1>3, DispatchTInv
<1>4. ASSUME NEW w \in Workers, Work(w) PROVE TInv'
  BY <1>4, TakeTInv, EmitActionsTInv, ExecuteTInv, ReportTInv, DeadLetterTInv DEF Work
<1>5. ASSUME NEW o \in Operators, Operate(o) PROVE TInv'
  BY <1>5, OperateTInv
<1>6. CASE UNCHANGED vars
  <2>1. /\ UNCHANGED worldVars /\ UNCHANGED log /\ UNCHANGED readVars
        /\ UNCHANGED submitVars /\ UNCHANGED workVars /\ UNCHANGED dlqVars
    BY <1>6 DEF vars
  <2>2. UNCHANGED <<reading, rpart, log>> /\ UNCHANGED <<wpc, wcmd, opc, ocmd>>
    BY <2>1 DEF readVars, workVars, dlqVars
  <2>3. QED
    BY <2>1, <2>2, Frames DEF TInv, TypeOK
<1>7. QED
  BY <1>1, <1>2, <1>3, <1>4, <1>5, <1>6 DEF Next

(* TypeOK for every behaviour, with what it rests on. *)
THEOREM PipelineTyped == Spec => []TInv
<1>1. QED
  BY InitTInv, NextTInv, PTL DEF Spec

THEOREM PipelineTypeCorrect == Spec => []TypeOK
<1>1. TInv => TypeOK
  BY DEF TInv
<1>2. QED
  BY <1>1, PipelineTyped, PTL
-----------------------------------------------------------------------------
(* Marks: a command that is marked in flight is owned by somebody who will  *)
(* run it or take the mark away.                                            *)
(* The ways to own a marked command, by name. *)
Queued(c)     == \E i \in 1 .. Len(queue) : queue[i] = c
HeldBy(w, c)  == wcmd[w] = c /\ wpc[w] \in RunPcs \union {"queued"}
Submitting(c) == reading = "send" /\ Next1(rpart).cmd = c
Replaying(o, c) == opc[o] = "send" /\ ocmd[o] = c

Owned(c) ==
    \/ Queued(c) \/ Submitting(c)
    \/ \E w \in Workers : HeldBy(w, c)
    \/ \E o \in Operators : Replaying(o, c)

LEMMA OwnedMeaning == InFlightOwned <=> \A c \in inFlight : Owned(c)
BY DEF InFlightOwned, Owned, Queued, HeldBy, Submitting, Replaying

(* A message that the consumer has in hand stays first in its partition. *)
LEMMA HeadKept ==
    ASSUME TInv, NEW p \in Partitions, NEW m \in Messages, Publish(p, m), log[rpart] # <<>>
    PROVE  log'[rpart] # <<>> /\ Head(log'[rpart]) = Head(log[rpart])
<1>1. /\ rpart \in Partitions /\ log[rpart] \in Seq(Messages)
      /\ log \in [Partitions -> Seq(Messages)]
  BY DEF TInv, TypeOK, ReadTypeOK, KafkaTypeOK
<1>2. \/ log'[rpart] = log[rpart] \/ log'[rpart] = Append(log[rpart], m)
      \/ log'[rpart] = log[rpart] \o <<m, m>>
  BY <1>1 DEF Publish
<1>3. CASE log'[rpart] = Append(log[rpart], m)
  BY <1>1, <1>3
<1>4. CASE log'[rpart] = log[rpart] \o <<m, m>>
  <2>1. /\ Len(log'[rpart]) >= 1 /\ log'[rpart][1] = log[rpart][1]
        /\ log'[rpart] \in Seq(Messages)
    BY <1>1, <1>4
  <2>2. QED
    BY <1>1, <2>1
<1>5. QED
  BY <1>2, <1>3, <1>4

LEMMA SubmittingKept ==
    ASSUME TInv, UNCHANGED <<reading, rpart>>, NEW p \in Partitions, NEW m \in Messages,
           Publish(p, m) \/ UNCHANGED log
    PROVE  \A c : Submitting(c) => Submitting(c)'
<1>1. reading = "send" => log[rpart] # <<>>
  BY DEF TInv, ReadingOK
<1>2. QED
  BY <1>1, HeadKept DEF Submitting, Next1

LEMMA QueuedBySend ==
    ASSUME TInv, NEW c \in Commands, Send(c)
    PROVE  /\ \A d : Queued(d) => Queued(d)'
           /\ \A d \in inFlight' : d \in inFlight /\ (d = c => Queued(d)')
<1>1. queue \in Seq(Commands)
  BY DEF TInv, TypeOK, SubmitTypeOK
<1>2. CASE Len(queue) < QueueCapacity
  <2>1. queue' = Append(queue, c) /\ UNCHANGED inFlight
    BY <1>2 DEF Send
  <2>2. /\ Len(queue') = Len(queue) + 1 /\ queue'[Len(queue')] = c
        /\ \A i \in 1 .. Len(queue) : i \in 1 .. Len(queue') /\ queue'[i] = queue[i]
        /\ Len(queue') \in 1 .. Len(queue')
    BY <1>1, <2>1
  <2>3. QED
    BY <2>1, <2>2 DEF Queued
<1>3. CASE ~(Len(queue) < QueueCapacity)
  BY <1>3 DEF Send, Queued
<1>4. QED
  BY <1>2, <1>3

(* Whatever the step, a mark that stays and whose owner does not lose it is owned. *)
LEMMA StaysOwned ==
    ASSUME InFlightOwned, inFlight' \subseteq inFlight,
           \A c \in inFlight' : Queued(c) => Owned(c)',
           \A c \in inFlight' : Submitting(c) => Owned(c)',
           \A c \in inFlight', w \in Workers : HeldBy(w, c) => Owned(c)',
           \A c \in inFlight', o \in Operators : Replaying(o, c) => Owned(c)'
    PROVE  InFlightOwned'
<1>1. \A c \in inFlight : Owned(c)
  BY OwnedMeaning
<1>2. \A c \in inFlight' : Owned(c)'
  BY <1>1 DEF Owned
<1>3. QED
  BY <1>2 DEF InFlightOwned, Owned, Queued, HeldBy, Submitting, Replaying

LEMMA OwnedIs ==
    ASSUME NEW c, \/ Queued(c)' \/ Submitting(c)'
                  \/ \E w \in Workers : HeldBy(w, c)'
                  \/ \E o \in Operators : Replaying(o, c)'
    PROVE  Owned(c)'
BY DEF Owned

LEMMA SameOwners ==
    ASSUME InFlightOwned, UNCHANGED <<reading, rpart, log, queue, wpc, wcmd, opc, ocmd>>,
           inFlight' \subseteq inFlight
    PROVE  InFlightOwned'
BY DEF InFlightOwned, Next1

LEMMA CrashOwned == ASSUME Crash PROVE InFlightOwned'
BY DEF Crash, InFlightOwned

(* The consumer: what it marks it is about to send, and Send queues or unmarks. *)
LEMMA ConsumerOwned == ASSUME TInv, InFlightOwned, Attach \/ Consumer PROVE InFlightOwned'
<1>1. UNCHANGED <<wpc, wcmd, opc, ocmd>>
  BY DEF Attach, Consumer, Consume, ConsumerMark, ConsumerSend, ConsumerCommit, workVars, dlqVars
<1>2. CASE Attach
  BY <1>1, <1>2, SameOwners DEF Attach, submitVars
<1>3. ASSUME reading # "send", reading' # "send", UNCHANGED submitVars PROVE InFlightOwned'
  BY <1>1, <1>3 DEF InFlightOwned, submitVars
<1>4. ASSUME NEW p \in Partitions, Consume(p) PROVE InFlightOwned'
  BY <1>3, <1>4 DEF Consume
<1>5. CASE ConsumerCommit
  BY <1>3, <1>5 DEF ConsumerCommit
<1>6. CASE ConsumerMark
  <2>1. CASE UNCHANGED inFlight
    BY <1>1, <1>6, <2>1 DEF ConsumerMark, InFlightOwned
  <2>2. CASE reading' = "send" /\ inFlight' = inFlight \union {Next1(rpart).cmd}
    BY <1>1, <1>6, <2>2 DEF ConsumerMark, InFlightOwned, Next1
  <2>3. QED
    BY <1>6, <2>1, <2>2 DEF ConsumerMark
<1>7. CASE ConsumerSend
  <2>1. reading = "send" /\ Send(Next1(rpart).cmd) /\ Next1(rpart).cmd \in Commands
    BY <1>7, NextMessageTyped DEF ConsumerSend, TInv, TypeOK, ReadTypeOK, ReadingOK
  <2>2. /\ \A d : Queued(d) => Queued(d)'
        /\ \A d \in inFlight' : d \in inFlight /\ (d = Next1(rpart).cmd => Queued(d)')
    BY <2>1, QueuedBySend
  <2>3. \A c \in inFlight' : (Queued(c) \/ Submitting(c)) => Owned(c)'
    BY <2>2, OwnedIs DEF Submitting
  <2>4. \A c \in inFlight' : /\ \A w \in Workers : HeldBy(w, c) => HeldBy(w, c)'
                             /\ \A o \in Operators : Replaying(o, c) => Replaying(o, c)'
    BY <1>1 DEF HeldBy, Replaying
  <2>5. QED
    BY <2>2, <2>3, <2>4, StaysOwned, OwnedIs
<1>8. QED
  BY <1>2, <1>4, <1>5, <1>6, <1>7 DEF Consumer

(* Records and dead letters leave the owners alone. *)
LEMMA PublishOwned ==
    ASSUME TInv, InFlightOwned, NEW p \in Partitions, NEW m \in Messages,
           Publish(p, m) \/ UNCHANGED log, UNCHANGED <<reading, rpart, queue>>,
           inFlight' \subseteq inFlight,
           \A w \in Workers, c \in inFlight' : HeldBy(w, c) => HeldBy(w, c)',
           \A o \in Operators, c \in inFlight' : Replaying(o, c) => Replaying(o, c)'
    PROVE  InFlightOwned'
<1>1. \A c : Submitting(c) => Submitting(c)'
  BY SubmittingKept
<1>2. \A c : Queued(c) => Queued(c)'
  BY DEF Queued
<1>3. QED
  BY <1>1, <1>2, StaysOwned, OwnedIs

LEMMA IngestPublishes ==
    ASSUME NEW c \in Commands, NEW tag \in Tags, Accepted(c, tag) \/ Refused(c, tag)
    PROVE  \E p \in Partitions, m \in Messages : Publish(p, m) \/ UNCHANGED log
<1>1. Message(c, tag) \in Messages /\ Partition(tag) \in Partitions
  BY MessageTyped, PartitionTyped
<1>2. Publish(Partition(tag), Message(c, tag)) \/ UNCHANGED log
  BY DEF Accepted, Refused
<1>3. QED
  BY <1>1, <1>2

LEMMA EntryPublishes ==
    ASSUME NEW c \in Commands, NEW e \in Entries, PersistEntry(c, e)
    PROVE  \E p \in Partitions, m \in Messages : Publish(p, m) \/ UNCHANGED log
<1>1. /\ "ground" \in Partitions
      /\ [cmd |-> c, kind |-> "event", state |-> e.exec] \in Messages
  BY DEF Partitions, Messages, Entries, Lifecycles, ExecutionStates, Terminal
<1>2. Publish("ground", [cmd |-> c, kind |-> "event", state |-> e.exec]) \/ UNCHANGED log
  BY DEF PersistEntry
<1>3. QED
  BY <1>1, <1>2

LEMMA DispatchOwned ==
    ASSUME TInv, InFlightOwned, NEW c \in Commands, Dispatch(c) PROVE InFlightOwned'
<1>1. UNCHANGED <<reading, rpart, queue, inFlight, wpc, wcmd, opc, ocmd>>
  BY DEF Dispatch, readVars, submitVars, workVars, dlqVars
<1>2. \E p \in Partitions, m \in Messages : Publish(p, m) \/ UNCHANGED log
  BY IngestPublishes DEF Dispatch, Tags
<1>3. QED
  BY <1>1, <1>2, PublishOwned DEF HeldBy, Replaying

LEMMA TakeOwned ==
    ASSUME TInv, InFlightOwned, NEW w \in Workers, Take(w) PROVE InFlightOwned'
<1>1. /\ UNCHANGED <<reading, rpart, log, inFlight, opc, ocmd>>
      /\ wpc[w] = "idle" /\ wpc' = [wpc EXCEPT ![w] = "queued"]
      /\ wcmd' = [wcmd EXCEPT ![w] = Head(queue)]
  BY DEF Take, readVars, dlqVars
<1>2. queue \in Seq(Commands) /\ queue # <<>> /\ queue' = Tail(queue)
  BY DEF TInv, TypeOK, SubmitTypeOK, Take
<1>3. \A c : c = Head(queue) => HeldBy(w, c)'
  BY <1>1, WorkerParts DEF HeldBy
<1>4. \A c \in inFlight' : Queued(c) => Queued(c)' \/ HeldBy(w, c)'
  <2>1. SUFFICES ASSUME NEW c \in inFlight', NEW i \in 1 .. Len(queue), queue[i] = c
                 PROVE  Queued(c)' \/ HeldBy(w, c)'
    BY DEF Queued
  <2>2. CASE i = 1
    BY <1>2, <1>3, <2>1, <2>2
  <2>3. CASE i # 1
    <3>1. i - 1 \in 1 .. Len(queue') /\ queue'[i - 1] = c
      BY <1>2, <2>1, <2>3
    <3>2. QED
      BY <3>1 DEF Queued
  <2>4. QED
    BY <2>2, <2>3
<1>5. \A c \in inFlight', v \in Workers : HeldBy(v, c) => HeldBy(v, c)'
  BY <1>1, WorkerParts DEF HeldBy, RunPcs
<1>6. \A c \in inFlight' : /\ Submitting(c) => Submitting(c)'
                           /\ \A o \in Operators : Replaying(o, c) => Replaying(o, c)'
  BY <1>1 DEF Submitting, Replaying, Next1
<1>7. QED
  BY <1>1, <1>4, <1>5, <1>6, StaysOwned, OwnedIs

(* A worker leaves its run only with Finish, which takes the mark away. *)
LEMMA WorkOwned ==
    ASSUME TInv, InFlightOwned, NEW w \in Workers, Work(w) PROVE InFlightOwned'
<1>1. CASE Take(w)
  BY <1>1, TakeOwned
<1>2. CASE ~Take(w)
  <2>1. UNCHANGED <<reading, rpart, queue, wcmd, opc, ocmd>>
    BY <1>2, ExecuteParts
       DEF Work, EmitQueued, EmitSent, EmitAck, EmitExecuting, EmitCompleted, EmitOrGiveUp,
         EmitRetry, EmitTelemetry, EmitFailure, Enqueue, PersistEnqueued, Finish,
         readVars, submitVars, dlqVars
  <2>2. wpc[w] # "idle" /\ wcmd[w] \in Commands /\ failure[w] \in {"FAILED", "TIMEOUT"}
    BY <1>2, ExecuteParts, WorkerParts
       DEF Work, EmitQueued, EmitSent, EmitAck, EmitExecuting, EmitCompleted, EmitOrGiveUp,
         EmitRetry, EmitTelemetry, EmitFailure, Enqueue, PersistEnqueued
  <2>3. \E p \in Partitions, m \in Messages : Publish(p, m) \/ UNCHANGED log
    <3>1. {"QUEUED", "SENT", "RETRY", "ACK", "EXECUTING", "COMPLETED", "FAILED", "TIMEOUT",
           "TELEMETRY"} \subseteq Tags
      BY DEF Tags
    <3>2. CASE PersistEnqueued(w)
      <4>1. [state |-> "PENDING", exec |-> failure[w]] \in Entries
        BY <2>2, EntryTyped
      <4>2. QED
        BY <2>2, <3>2, <4>1, EntryPublishes DEF PersistEnqueued
    <3>3. CASE UNCHANGED log
      <4>1. "ground" \in Partitions /\ Message(wcmd[w], "SENT") \in Messages
        BY <2>2, <3>1, MessageTyped DEF Partitions
      <4>2. QED
        BY <3>3, <4>1
    <3>4. CASE \E tag \in Tags : Accepted(wcmd[w], tag) \/ Refused(wcmd[w], tag)
      BY <2>2, <3>4, IngestPublishes
    <3>5. CASE EmitQueued(w) \/ EmitSent(w) \/ EmitAck(w) \/ EmitExecuting(w) \/ EmitCompleted(w)
      BY <3>1, <3>4, <3>5
         DEF EmitQueued, EmitSent, EmitAck, EmitExecuting, EmitCompleted, EmitOrGiveUp
    <3>6. CASE EmitRetry(w) \/ EmitTelemetry(w) \/ EmitFailure(w)
      BY <2>2, <3>1, <3>4, <3>6 DEF EmitRetry, EmitTelemetry, EmitFailure
    <3>7. QED
      BY <1>2, <3>2, <3>3, <3>5, <3>6, ExecuteParts DEF Work, Enqueue
  <2>4. \/ inFlight' = inFlight \ {wcmd[w]} /\ \E pc : wpc' = [wpc EXCEPT ![w] = pc]
        \/ /\ inFlight' = inFlight
           /\ \E pc : /\ wpc' = [wpc EXCEPT ![w] = pc]
                      /\ pc \in RunPcs \/ wpc[w] \in {"enqueue", "persist"}
    <3>1. CASE EmitQueued(w) \/ EmitSent(w) \/ EmitAck(w) \/ EmitExecuting(w) \/ EmitCompleted(w)
      BY <3>1 DEF EmitQueued, EmitSent, EmitAck, EmitExecuting, EmitCompleted, EmitOrGiveUp,
         Finish, RunPcs, submitVars
    <3>2. CASE EmitRetry(w) \/ EmitTelemetry(w) \/ EmitFailure(w)
      BY <3>2 DEF EmitRetry, EmitTelemetry, EmitFailure, Finish, RunPcs, submitVars
    <3>3. CASE Execute(w) \/ Enqueue(w) \/ PersistEnqueued(w)
      BY <3>3, ExecuteParts DEF Enqueue, PersistEnqueued, RunPcs, submitVars
    <3>4. QED
      BY <1>2, <3>1, <3>2, <3>3 DEF Work
  <2>5. \A v \in Workers, c \in inFlight' : HeldBy(v, c) => HeldBy(v, c)'
    BY <2>1, <2>4, WorkerParts DEF HeldBy, RunPcs
  <2>6. \A o \in Operators, c \in inFlight' : Replaying(o, c) => Replaying(o, c)'
    BY <2>1 DEF Replaying
  <2>7. QED
    BY <2>1, <2>3, <2>4, <2>5, <2>6, PublishOwned
<1>3. QED
  BY <1>1, <1>2

LEMMA OperateOwned ==
    ASSUME TInv, InFlightOwned, NEW o \in Operators, Operate(o) PROVE InFlightOwned'
<1>1. /\ UNCHANGED <<reading, rpart, wpc, wcmd>>
      /\ \A p \in Operators \ {o} : opc'[p] = opc[p] /\ ocmd'[p] = ocmd[p]
  BY DlqParts DEF Operate, ReplayStep, ReplayReset, ReplayMark, ReplaySend, ReplayWrite,
     PersistAction, ReplayCheck, Resolve, GoTo, readVars, workVars
<1>2. /\ \A c, v : HeldBy(v, c) => HeldBy(v, c)'
      /\ \A c : \A p \in Operators \ {o} : Replaying(p, c) => Replaying(p, c)'
  BY <1>1 DEF HeldBy, Replaying
<1>3. CASE opc[o] # "send" /\ UNCHANGED <<log, queue>> /\ inFlight' \subseteq inFlight
  <2>1. \A c \in inFlight' : /\ Queued(c) => Queued(c)'
                             /\ Submitting(c) => Submitting(c)'
                             /\ ~Replaying(o, c)
    BY <1>1, <1>3 DEF Queued, Submitting, Replaying, Next1
  <2>2. QED
    BY <1>2, <1>3, <2>1, StaysOwned, OwnedIs
<1>4. CASE ReplayMark(o)
  <2>1. CASE UNCHANGED inFlight
    BY <1>3, <1>4, <2>1 DEF ReplayMark
  <2>2. CASE opc'[o] = "send" /\ inFlight' = inFlight \union {ocmd[o]}
    <3>1. \A c : c = ocmd[o] => Replaying(o, c)'
      BY <1>4, <2>2 DEF ReplayMark, Replaying
    <3>2. \A c : /\ Queued(c) => Queued(c)'
                 /\ Submitting(c) => Submitting(c)'
                 /\ ~Replaying(o, c)
      BY <1>1, <1>4 DEF Queued, Submitting, Replaying, Next1, ReplayMark
    <3>3. \A c \in inFlight : Owned(c)'
      <4>1. \A c \in inFlight : Owned(c)
        BY OwnedMeaning
      <4>2. QED
        BY <1>2, <3>2, <4>1, OwnedIs DEF Owned
    <3>4. \A c : c = ocmd[o] => Owned(c)'
      BY <3>1, OwnedIs
    <3>5. \A c \in inFlight' : Owned(c)'
      BY <2>2, <3>3, <3>4
    <3>6. QED
      BY <3>5 DEF InFlightOwned, Owned, Queued, HeldBy, Submitting, Replaying
  <2>3. QED
    BY <1>4, <2>1, <2>2, DlqParts DEF ReplayMark, GoTo
<1>5. CASE ReplaySend(o)
  <2>1. Send(ocmd[o]) /\ ocmd[o] \in Commands /\ UNCHANGED log
    BY <1>5, DlqParts DEF ReplaySend
  <2>2. /\ \A d : Queued(d) => Queued(d)'
        /\ \A d \in inFlight' : d \in inFlight /\ (d = ocmd[o] => Queued(d)')
    BY <2>1, QueuedBySend
  <2>3. \A c \in inFlight' : /\ Submitting(c) => Submitting(c)'
                             /\ Replaying(o, c) => Queued(c)'
    BY <1>1, <2>1, <2>2 DEF Submitting, Replaying, Next1
  <2>4. QED
    BY <1>2, <2>2, <2>3, StaysOwned, OwnedIs
<1>6. CASE PersistAction(o)
  <2>1. /\ opc[o] \in {"replayed", "resolved"} /\ ocmd[o] \in Commands
        /\ dlq[ocmd[o]].exec \in {"", "FAILED", "TIMEOUT"}
    BY <1>6, DlqParts DEF PersistAction, Entries
  <2>2. \E p \in Partitions, m \in Messages : Publish(p, m) \/ UNCHANGED log
    BY <1>6, <2>1, EntryTyped, EntryPublishes DEF PersistAction
  <2>3. \A c : ~Replaying(o, c)
    BY <2>1 DEF Replaying
  <2>4. QED
    BY <1>1, <1>2, <1>6, <2>2, <2>3, PublishOwned DEF PersistAction, submitVars
<1>7. CASE ReplayReset(o) \/ ReplayWrite(o) \/ \E c \in Commands : ReplayCheck(o, c) \/ Resolve(o, c)
  BY <1>3, <1>7 DEF ReplayReset, ReplayWrite, ReplayCheck, Resolve, submitVars
<1>8. QED
  BY <1>4, <1>5, <1>6, <1>7 DEF Operate, ReplayStep

(* InFlightOwned: no command stays marked with nobody to run or unmark it,  *)
(* so Submit never ignores a redelivered or replayed command for ever.      *)
THEOREM MarksAreOwned == Spec => []InFlightOwned
<1>1. Init => InFlightOwned
  BY DEF Init, InFlightOwned
<1>2. TInv /\ InFlightOwned /\ [Next]_vars => InFlightOwned'
  <2> SUFFICES ASSUME TInv, InFlightOwned, [Next]_vars PROVE InFlightOwned'
    OBVIOUS
  <2>1. CASE UNCHANGED vars
    BY <2>1, SameOwners DEF vars, readVars, submitVars, workVars, dlqVars
  <2>2. CASE Next
    BY <2>2, CrashOwned, ConsumerOwned, DispatchOwned, WorkOwned, OperateOwned DEF Next
  <2>3. QED
    BY <2>1, <2>2
<1>3. QED
  BY <1>1, <1>2, PipelineTyped, PTL DEF Spec
=============================================================================
