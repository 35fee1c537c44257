--------------------------- MODULE CommandPipeline ---------------------------
(***************************************************************************)
(* A command's way through the ground data service:                        *)
(*   POST .../commands -> Service.Ingest -> store and Kafka -> KafkaConsumer *)
(*   -> CommandEngine, CommandExecutionReconciler and                       *)
(*   CommandExecutionOrchestrator -> vehicle -> lifecycle records and events *)
(*   through Service.Ingest again, and the dead-letter queue with its        *)
(*   replay and resolve endpoints.                                          *)
(* Service.Ingest is the boundary of module GroundIngest, in brief: a record *)
(* ID that is stored is refused, whether the window or the store's key      *)
(* knows it; a record that is stored may fail to reach Kafka.               *)
(***************************************************************************)
EXTENDS Integers, Sequences, FiniteSets, CommandStates

CONSTANTS
    Commands,       \* command IDs
    Workers,        \* orchestrator goroutines (main.go starts one)
    Operators,      \* HTTP calls on the dead-letter endpoints under way at once
    MaxAttempts,    \* CommandReliabilityPolicy.MaxAttempts
    QueueCapacity,  \* buffer of the orchestrator's channel
    MaxCrashes,     \* bound on restarts of the service
    Faults,         \* of "store", "answer", "publish", "duplicate": what may fail
    NoCommand

ASSUME PipelineAssumption ==
    /\ MaxAttempts \in Nat \ {0} /\ QueueCapacity \in Nat \ {0} /\ MaxCrashes \in Nat
    /\ NoCommand \notin Commands

VARIABLES
    (* durable, or outside the service *)
    durable,    \* durable[c]: tags of c's stored records (a RecordID is command and tag)
    dlqStored,  \* dlqStored[c]: the last stored COMMAND_DLQ row of c
    log,        \* log[p]: Kafka partition p from the group's committed offset on
    attempts,   \* attempts[c]: requests Execute sent to the vehicle for c
    applied,    \* commands the vehicle answered APPLIED to
    rejected,   \* commands it refused with a status that is not retried
    crashes,
    (* KafkaConsumer and its router *)
    attached,   \* AttachCommandOrchestrator was called
    reading,    \* where run is with a RECEIVED record
    rpart,      \* the partition that record came from
    engine,     \* CommandEngine.commands[c].Lifecycle
    exec,       \* CommandExecutionReconciler.commands[c].State
    (* CommandExecutionOrchestrator *)
    queue, inFlight, terminal,
    wpc, wcmd, wattempt, failure,
    (* CommandDeadLetterQueue *)
    dlq, opc, ocmd

worldVars  == <<durable, dlqStored, attempts, applied, rejected, crashes>>
readVars   == <<attached, reading, rpart, engine, exec>>
submitVars == <<queue, inFlight, terminal>>
workVars   == <<wpc, wcmd, wattempt, failure>>
dlqVars    == <<dlq, opc, ocmd>>
vars == <<worldVars, log, readVars, submitVars, workVars, dlqVars>>

Tags == {"RECEIVED", "QUEUED", "SENT", "RETRY", "ACK", "EXECUTING", "COMPLETED",
         "FAILED", "TIMEOUT", "TELEMETRY"}
CommandTags == {"RECEIVED", "QUEUED", "SENT"}
Partitions == {"ground", "vehicle"}

\* RunPcs: a worker that holds a command and has not given up on it yet.
RunPcs    == {"sent", "attempt", "retry", "ack", "executing", "completed", "telemetry", "fail"}
WorkerPcs == {"idle", "queued", "enqueue", "persist"} \union RunPcs

NoEntry == [state |-> "none", exec |-> ""]
Entries == [state : {"none", "PENDING", "REPLAYED", "RESOLVED"}, exec : {"", "FAILED", "TIMEOUT"}]
Messages == [cmd : Commands, kind : {"command", "event"},
             state : Lifecycles \union {""}]

-----------------------------------------------------------------------------
(* Service.Ingest of the record of c with this tag.  Command records carry  *)
(* the operator's source node, events the vehicle's: two message keys.      *)
TagAsState(tag) == tag          \* mutant: the event type is sent as the state

RetryIsFailure(tag) ==          \* mutant: a retry event reports the failed attempt
    CASE tag = "RETRY" -> "FAILED" [] tag = "ACK" -> "ACKNOWLEDGED" [] OTHER -> tag

StateOf(tag) ==
    CASE tag = "RETRY" -> "SENT" [] tag = "ACK" -> "ACKNOWLEDGED" [] OTHER -> tag

Message(c, tag) ==
    [cmd |-> c, kind |-> IF tag \in CommandTags THEN "command" ELSE "event",
     state |-> IF tag = "TELEMETRY" THEN "" ELSE StateOf(tag)]

Partition(tag) == IF tag \in CommandTags THEN "ground" ELSE "vehicle"

\* A Publish that fails is only logged; a retried write may land twice.
Publish(p, m) ==
    \/ log' = [log EXCEPT ![p] = Append(@, m)]
    \/ "publish" \in Faults /\ UNCHANGED log
    \/ "duplicate" \in Faults /\ log' = [log EXCEPT ![p] = @ \o <<m, m>>]

Accepted(c, tag) ==
    /\ tag \notin durable[c]
    /\ durable' = [durable EXCEPT ![c] = @ \union {tag}]
    /\ Publish(Partition(tag), Message(c, tag))

\* The store may have taken a record although its answer is lost.
Refused(c, tag) ==
    /\ \/ tag \in durable[c] /\ UNCHANGED durable
       \/ "store" \in Faults /\ UNCHANGED durable
       \/ "answer" \in Faults /\ durable' = [durable EXCEPT ![c] = @ \union {tag}]
    /\ UNCHANGED log

-----------------------------------------------------------------------------
Init ==
    /\ durable = [c \in Commands |-> {}]
    /\ dlqStored = [c \in Commands |-> NoEntry]
    /\ log = [p \in Partitions |-> <<>>]
    /\ attempts = [c \in Commands |-> 0]
    /\ applied = {} /\ rejected = {}
    /\ crashes = 0
    /\ attached = FALSE
    /\ reading = "fetch" /\ rpart = "ground"
    /\ engine = [c \in Commands |-> ""]
    /\ exec = [c \in Commands |-> ""]
    /\ queue = <<>> /\ inFlight = {}
    /\ terminal = [c \in Commands |-> ""]
    /\ wpc = [w \in Workers |-> "idle"]
    /\ wcmd = [w \in Workers |-> NoCommand]
    /\ wattempt = [w \in Workers |-> 0]
    /\ failure = [w \in Workers |-> "FAILED"]
    /\ dlq = [c \in Commands |-> NoEntry]
    /\ opc = [o \in Operators |-> "idle"]
    /\ ocmd = [o \in Operators |-> NoCommand]

\* The store and Kafka stay; what NewCommandDeadLetterQueue rebuilds is the state
\* of each entry, but the execution state is looked up in the wrong record.
Crash ==
    /\ crashes < MaxCrashes
    /\ crashes' = crashes + 1
    /\ attached' = FALSE
    /\ reading' = "fetch" /\ rpart' = "ground"
    /\ engine' = [c \in Commands |-> ""]
    /\ exec' = [c \in Commands |-> ""]
    /\ queue' = <<>> /\ inFlight' = {}
    /\ terminal' = [c \in Commands |-> ""]
    /\ wpc' = [w \in Workers |-> "idle"]
    /\ wcmd' = [w \in Workers |-> NoCommand]
    /\ wattempt' = [w \in Workers |-> 0]
    /\ failure' = [w \in Workers |-> "FAILED"]
    /\ dlq' = [c \in Commands |-> [dlqStored[c] EXCEPT !.exec = ""]]
    /\ opc' = [o \in Operators |-> "idle"]
    /\ ocmd' = [o \in Operators |-> NoCommand]
    /\ UNCHANGED <<durable, dlqStored, attempts, applied, rejected, log>>

\* The consumer runs before main attaches the orchestrator, and HTTP is served after.
Attach ==
    /\ ~attached
    /\ attached' = TRUE
    /\ UNCHANGED <<worldVars, log, reading, rpart, engine, exec, submitVars, workVars, dlqVars>>

\* MissionCommandDispatcher.Submit.
Dispatch(c) ==
    /\ attached
    /\ Accepted(c, "RECEIVED") \/ Refused(c, "RECEIVED")
    /\ UNCHANGED <<dlqStored, attempts, applied, rejected, crashes, readVars, submitVars,
                   workVars, dlqVars>>

-----------------------------------------------------------------------------
(* KafkaConsumer.run.  Route: a command record the engine refuses goes no   *)
(* further; the reconciler ignores RECEIVED, and events it refuses.         *)
Next1(p) == Head(log[p])

Reconcile(m) ==
    exec' = IF /\ m.state \notin {"RECEIVED", ""}
               /\ ValidCommandExecutionTransition(exec[m.cmd], m.state)
            THEN [exec EXCEPT ![m.cmd] = m.state] ELSE exec

Routed(m) ==
    IF m.kind = "event"
    THEN Reconcile(m) /\ UNCHANGED engine
    ELSE IF IsValidCommandTransition(engine[m.cmd], m.state)
    THEN engine' = [engine EXCEPT ![m.cmd] = m.state] /\ Reconcile(m)
    ELSE UNCHANGED <<engine, exec>>

IsForOrchestrator(m) ==
    /\ attached
    /\ m.kind = "command" /\ m.state = "RECEIVED"
    /\ IsValidCommandTransition(engine[m.cmd], "RECEIVED")

Consume(p) ==
    /\ reading = "fetch"
    /\ log[p] # <<>>
    /\ Routed(Next1(p))
    /\ IF IsForOrchestrator(Next1(p))
       THEN reading' = "mark" /\ rpart' = p /\ UNCHANGED log
       ELSE log' = [log EXCEPT ![p] = Tail(@)] /\ UNCHANGED <<reading, rpart>>
    /\ UNCHANGED <<worldVars, attached, submitVars, workVars, dlqVars>>

\* Orchestrator.Submit: the maps under the lock, then the channel without it.
Busy(c) == c \in inFlight \/ terminal[c] # ""

ConsumerMark ==
    LET c == Next1(rpart).cmd IN
    /\ reading = "mark"
    /\ IF Busy(c) THEN reading' = "commit" /\ UNCHANGED inFlight
       ELSE reading' = "send" /\ inFlight' = inFlight \union {c}
    /\ UNCHANGED <<worldVars, log, attached, rpart, engine, exec, queue, terminal, workVars, dlqVars>>

SendKeepsMark(c) ==             \* mutant: a full queue leaves the command in flight
    IF Len(queue) < QueueCapacity
    THEN queue' = Append(queue, c) /\ UNCHANGED <<inFlight, terminal>>
    ELSE UNCHANGED <<queue, inFlight, terminal>>

SendShort(c) ==                 \* mutant: the last slot is never used
    IF Len(queue) < QueueCapacity - 1
    THEN queue' = Append(queue, c) /\ UNCHANGED <<inFlight, terminal>>
    ELSE inFlight' = inFlight \ {c} /\ UNCHANGED <<queue, terminal>>

Send(c) ==
    IF Len(queue) < QueueCapacity
    THEN queue' = Append(queue, c) /\ UNCHANGED <<inFlight, terminal>>
    ELSE inFlight' = inFlight \ {c} /\ UNCHANGED <<queue, terminal>>

\* The error of a full queue is recorded in LastError and the message committed.
ConsumerSend ==
    /\ reading = "send"
    /\ Send(Next1(rpart).cmd)
    /\ reading' = "commit"
    /\ UNCHANGED <<worldVars, log, attached, rpart, engine, exec, workVars, dlqVars>>

ConsumerCommit ==
    /\ reading = "commit"
    /\ log' = [log EXCEPT ![rpart] = Tail(@)]
    /\ reading' = "fetch"
    /\ UNCHANGED <<worldVars, attached, rpart, engine, exec, submitVars, workVars, dlqVars>>

-----------------------------------------------------------------------------
(* CommandExecutionOrchestrator.worker and execute. *)
Take(w) ==
    /\ wpc[w] = "idle" /\ queue # <<>>
    /\ wcmd' = [wcmd EXCEPT ![w] = Head(queue)]
    /\ queue' = Tail(queue)
    /\ wpc' = [wpc EXCEPT ![w] = "queued"]
    /\ UNCHANGED <<worldVars, log, readVars, inFlight, terminal, wattempt, failure, dlqVars>>

\* finishFailureState, or the end of execute: the maps change in one critical section.
FinishKeepsMark(w, outcome, pc) ==      \* mutant: the mark stays
    /\ terminal' = [terminal EXCEPT ![wcmd[w]] = outcome]
    /\ wpc' = [wpc EXCEPT ![w] = pc]
    /\ UNCHANGED <<queue, inFlight>>

Finish(w, outcome, pc) ==
    /\ inFlight' = inFlight \ {wcmd[w]}
    /\ terminal' = [terminal EXCEPT ![wcmd[w]] = outcome]
    /\ wpc' = [wpc EXCEPT ![w] = pc]
    /\ UNCHANGED queue

\* emitLifecycle or emitEvent whose error ends the run: no event, no dead letter.
EmitAndGoOn(w, pc, tag, next) ==        \* mutant: a refused record does not end the run
    /\ wpc[w] = pc
    /\ Accepted(wcmd[w], tag) \/ Refused(wcmd[w], tag)
    /\ wpc' = [wpc EXCEPT ![w] = next]
    /\ UNCHANGED <<dlqStored, attempts, applied, rejected, crashes, readVars, submitVars, wcmd,
                   failure, dlqVars>>

EmitOrGiveUp(w, pc, tag, next) ==
    /\ wpc[w] = pc
    /\ \/ Accepted(wcmd[w], tag) /\ wpc' = [wpc EXCEPT ![w] = next] /\ UNCHANGED submitVars
       \/ Refused(wcmd[w], tag) /\ Finish(w, "FAILED", "idle")
    /\ UNCHANGED <<dlqStored, attempts, applied, rejected, crashes, readVars, wcmd, failure, dlqVars>>

EmitQueued(w) == EmitOrGiveUp(w, "queued", "QUEUED", "sent") /\ UNCHANGED wattempt

EmitSent(w) ==
    /\ EmitOrGiveUp(w, "sent", "SENT", "attempt")
    /\ wattempt' = [wattempt EXCEPT ![w] = 1]

EmitAck(w)       == EmitOrGiveUp(w, "ack", "ACK", "executing") /\ UNCHANGED wattempt
EmitExecuting(w) == EmitOrGiveUp(w, "executing", "EXECUTING", "completed") /\ UNCHANGED wattempt
EmitCompleted(w) == EmitOrGiveUp(w, "completed", "COMPLETED", "telemetry") /\ UNCHANGED wattempt

\* One Execute and what executeWithRetry makes of it.  A refusal
\* (isRetryableCommandFailure: REJECTED, DENIED, INVALID, UNSUPPORTED) is final; any
\* other status, an error and a timeout are retried until the attempts are used up.
Answered(w, yes, no, pc) ==
    /\ wpc[w] = "attempt"
    /\ attempts' = [attempts EXCEPT ![wcmd[w]] = @ + 1]
    /\ applied' = applied \union yes /\ rejected' = rejected \union no
    /\ wpc' = [wpc EXCEPT ![w] = pc]
    /\ UNCHANGED <<durable, dlqStored, crashes, log, readVars, submitVars, wcmd, wattempt,
                   dlqVars>>

Applies(w) == Answered(w, {wcmd[w]}, {}, "ack") /\ UNCHANGED failure

RejectsAndRetries(w) ==         \* mutant: every status is retried
    /\ Answered(w, {}, {wcmd[w]}, IF wattempt[w] = MaxAttempts THEN "fail" ELSE "retry")
    /\ failure' = [failure EXCEPT ![w] = "FAILED"]

Rejects(w) ==
    Answered(w, {}, {wcmd[w]}, "fail") /\ failure' = [failure EXCEPT ![w] = "FAILED"]

FailsUntil(w, last) ==
    /\ Answered(w, {}, {}, IF last THEN "fail" ELSE "retry")
    /\ \E f \in {"FAILED", "TIMEOUT"} : failure' = [failure EXCEPT ![w] = f]

ExecuteShort(w) ==              \* mutant: the last attempt is not made
    Applies(w) \/ Rejects(w) \/ FailsUntil(w, wattempt[w] + 1 >= MaxAttempts)

ExecuteOnceMore(w) ==           \* mutant: one attempt too many
    Applies(w) \/ Rejects(w) \/ FailsUntil(w, wattempt[w] > MaxAttempts)

Execute(w) == Applies(w) \/ Rejects(w) \/ FailsUntil(w, wattempt[w] = MaxAttempts)

\* The event's ID does not carry the attempt; its refusal is ignored.
EmitRetry(w) ==
    /\ wpc[w] = "retry"
    /\ Accepted(wcmd[w], "RETRY") \/ Refused(wcmd[w], "RETRY")
    /\ wattempt' = [wattempt EXCEPT ![w] = @ + 1]
    /\ wpc' = [wpc EXCEPT ![w] = "attempt"]
    /\ UNCHANGED <<dlqStored, attempts, applied, rejected, crashes, readVars, submitVars, wcmd,
                   failure, dlqVars>>

\* A failed telemetry record turns a completed run into a FAILED terminal entry.
EmitTelemetry(w) ==
    /\ wpc[w] = "telemetry"
    /\ \/ Accepted(wcmd[w], "TELEMETRY") /\ Finish(w, "COMPLETED", "idle")
       \/ Refused(wcmd[w], "TELEMETRY") /\ Finish(w, "FAILED", "idle")
    /\ UNCHANGED <<dlqStored, attempts, applied, rejected, crashes, readVars, wcmd, wattempt,
                   failure, dlqVars>>

\* Attempts exhausted or the command rejected: the event's refusal is ignored, and
\* the command dead-lettered in both cases.
EmitFailure(w) ==
    /\ wpc[w] = "fail"
    /\ Accepted(wcmd[w], failure[w]) \/ Refused(wcmd[w], failure[w])
    /\ Finish(w, failure[w], "enqueue")
    /\ UNCHANGED <<dlqStored, attempts, applied, rejected, crashes, readVars, wcmd, wattempt,
                   failure, dlqVars>>

-----------------------------------------------------------------------------
(* CommandDeadLetterQueue.  Its entries are one per failed run, hence       *)
(* (OutcomeMatchesVehicle) one per command.  persistEvent stores a copy of   *)
(* the entry taken under the lock, after the lock is gone; rebuild keeps the *)
(* row with the latest timestamp, taken as this step begins.  nextSeq starts *)
(* again with the process: a row may get the ID of one stored before.       *)
NumberTaken(c, entry) ==
    crashes > 0 /\ entry.state # "PENDING" /\ dlqStored[c].state # "none"

PersistEntry(c, entry) ==
    \/ /\ dlqStored' = [dlqStored EXCEPT ![c] = entry]
       /\ Publish("ground", [cmd |-> c, kind |-> "event", state |-> entry.exec])
    \/ ("store" \in Faults \/ NumberTaken(c, entry)) /\ UNCHANGED <<dlqStored, log>>
    \/ "answer" \in Faults /\ dlqStored' = [dlqStored EXCEPT ![c] = entry] /\ UNCHANGED log

Enqueue(w) ==
    /\ wpc[w] = "enqueue"
    /\ dlq' = [dlq EXCEPT ![wcmd[w]] = [state |-> "PENDING", exec |-> failure[w]]]
    /\ wpc' = [wpc EXCEPT ![w] = "persist"]
    /\ UNCHANGED <<worldVars, log, readVars, submitVars, wcmd, wattempt, failure, opc, ocmd>>

PersistEnqueued(w) ==
    /\ wpc[w] = "persist"
    /\ PersistEntry(wcmd[w], [state |-> "PENDING", exec |-> failure[w]])
    /\ wpc' = [wpc EXCEPT ![w] = "idle"]
    /\ UNCHANGED <<durable, attempts, applied, rejected, crashes, readVars, submitVars, wcmd,
                   wattempt, failure, dlqVars>>

GoTo(o, pc) == opc' = [opc EXCEPT ![o] = pc]

\* Replay: PENDING is checked under the lock, the rest happens without it.
ReplayCheck(o, c) ==
    /\ opc[o] = "idle" /\ attached
    /\ dlq[c].state = "PENDING"
    /\ ocmd' = [ocmd EXCEPT ![o] = c]
    /\ GoTo(o, "reset")
    /\ UNCHANGED <<worldVars, log, readVars, submitVars, workVars, dlq>>

ReplayReset(o) ==
    /\ opc[o] = "reset"
    /\ inFlight' = inFlight \ {ocmd[o]}
    /\ terminal' = [terminal EXCEPT ![ocmd[o]] = ""]
    /\ GoTo(o, "mark")
    /\ UNCHANGED <<worldVars, log, readVars, queue, workVars, dlq, ocmd>>

ReplayMark(o) ==
    /\ opc[o] = "mark"
    /\ IF Busy(ocmd[o]) THEN GoTo(o, "write") /\ UNCHANGED inFlight
       ELSE GoTo(o, "send") /\ inFlight' = inFlight \union {ocmd[o]}
    /\ UNCHANGED <<worldVars, log, readVars, queue, terminal, workVars, dlq, ocmd>>

ReplaySend(o) ==
    /\ opc[o] = "send"
    /\ Send(ocmd[o])
    /\ GoTo(o, IF Len(queue) < QueueCapacity THEN "write" ELSE "idle")
    /\ UNCHANGED <<worldVars, log, readVars, workVars, dlq, ocmd>>

ReplayWrite(o) ==
    /\ opc[o] = "write"
    /\ dlq' = [dlq EXCEPT ![ocmd[o]].state = "REPLAYED"]
    /\ GoTo(o, "replayed")
    /\ UNCHANGED <<worldVars, log, readVars, submitVars, workVars, ocmd>>

Resolve(o, c) ==
    /\ opc[o] = "idle" /\ attached
    /\ dlq[c].state \in {"PENDING", "REPLAYED"}
    /\ dlq' = [dlq EXCEPT ![c].state = "RESOLVED"]
    /\ ocmd' = [ocmd EXCEPT ![o] = c]
    /\ GoTo(o, "resolved")
    /\ UNCHANGED <<worldVars, log, readVars, submitVars, workVars>>

PersistAction(o) ==
    /\ opc[o] \in {"replayed", "resolved"}
    /\ PersistEntry(ocmd[o],
         [state |-> IF opc[o] = "replayed" THEN "REPLAYED" ELSE "RESOLVED",
          exec  |-> dlq[ocmd[o]].exec])
    /\ GoTo(o, "idle")
    /\ UNCHANGED <<durable, attempts, applied, rejected, crashes, readVars, submitVars, workVars,
                   dlq, ocmd>>

-----------------------------------------------------------------------------
Consumer == (\E p \in Partitions : Consume(p)) \/ ConsumerMark \/ ConsumerSend \/ ConsumerCommit

Work(w) ==
    \/ Take(w) \/ EmitQueued(w) \/ EmitSent(w) \/ Execute(w) \/ EmitRetry(w)
    \/ EmitAck(w) \/ EmitExecuting(w) \/ EmitCompleted(w) \/ EmitTelemetry(w)
    \/ EmitFailure(w) \/ Enqueue(w) \/ PersistEnqueued(w)

ReplayStep(o) == ReplayReset(o) \/ ReplayMark(o) \/ ReplaySend(o) \/ ReplayWrite(o) \/ PersistAction(o)

Operate(o) == ReplayStep(o) \/ \E c \in Commands : ReplayCheck(o, c) \/ Resolve(o, c)

Next ==
    \/ Crash \/ Attach \/ Consumer
    \/ \E c \in Commands : Dispatch(c)
    \/ \E w \in Workers : Work(w)
    \/ \E o \in Operators : Operate(o)

Spec == Init /\ [][Next]_vars

\* Goroutines that can run do; each Execute ends by its deadline at the latest.
Fairness ==
    /\ WF_vars(Attach)
    /\ \A p \in Partitions : WF_vars(Consume(p))
    /\ WF_vars(ConsumerMark) /\ WF_vars(ConsumerSend) /\ WF_vars(ConsumerCommit)
    /\ \A w \in Workers : WF_vars(Work(w))
    /\ \A o \in Operators : WF_vars(ReplayStep(o))

FairSpec == Spec /\ Fairness

-----------------------------------------------------------------------------
WorldTypeOK ==
    /\ durable \in [Commands -> SUBSET Tags]
    /\ dlqStored \in [Commands -> Entries]
    /\ attempts \in [Commands -> Nat]
    /\ applied \subseteq Commands /\ rejected \subseteq Commands
    /\ crashes \in Nat

KafkaTypeOK == log \in [Partitions -> Seq(Messages)]

ReadTypeOK ==
    /\ attached \in BOOLEAN
    /\ reading \in {"fetch", "mark", "send", "commit"}
    /\ rpart \in Partitions
    /\ engine \in [Commands -> Lifecycles \union {""}]
    /\ exec \in [Commands -> ExecutionStates \union {""}]

SubmitTypeOK ==
    /\ queue \in Seq(Commands)
    /\ inFlight \subseteq Commands
    /\ terminal \in [Commands -> {"", "COMPLETED", "FAILED", "TIMEOUT"}]

WorkTypeOK ==
    /\ wpc \in [Workers -> WorkerPcs]
    /\ wcmd \in [Workers -> Commands \union {NoCommand}]
    /\ wattempt \in [Workers -> Nat]
    /\ failure \in [Workers -> {"FAILED", "TIMEOUT"}]

DlqTypeOK ==
    /\ dlq \in [Commands -> Entries]
    /\ opc \in [Operators -> {"idle", "reset", "mark", "send", "write", "replayed", "resolved"}]
    /\ ocmd \in [Operators -> Commands \union {NoCommand}]

TypeOK ==
    WorldTypeOK /\ KafkaTypeOK /\ ReadTypeOK /\ SubmitTypeOK /\ WorkTypeOK /\ DlqTypeOK

(* The orchestrator's maps are empty after a restart and emptied by every   *)
(* replay, messages come twice, a command may be queued twice: the vehicle  *)
(* still gets each command from one run only, within its attempts.          *)
SingleRun ==
    /\ \A c \in Commands : attempts[c] <= MaxAttempts
    /\ \A v, w \in Workers :
         wpc[v] \in RunPcs /\ wpc[w] \in RunPcs /\ wcmd[v] = wcmd[w] => v = w

(* The records say what the vehicle answered: a COMPLETED command was        *)
(* answered APPLIED; a FAILED, TIMEOUT or dead-lettered one never was, and   *)
(* was rejected or used all its attempts; a TIMEOUT was not rejected.       *)
OutcomeMatchesVehicle ==
    \A c \in Commands :
        /\ "COMPLETED" \in durable[c] => c \in applied
        /\ (durable[c] \intersect {"FAILED", "TIMEOUT"} # {} \/ dlq[c].state # "none")
             => c \notin applied /\ (attempts[c] = MaxAttempts \/ c \in rejected)
        /\ "TIMEOUT" \in durable[c] => c \notin rejected

(* No command is left marked in flight: Submit would ignore it for ever.    *)
(* Whoever is marked is about to be queued, is queued or is being run,      *)
(* whatever replays clear the marks meanwhile.                              *)
InFlightOwned ==
    \A c \in inFlight :
        \/ \E i \in 1 .. Len(queue) : queue[i] = c
        \/ \E w \in Workers : wcmd[w] = c /\ wpc[w] \in RunPcs \union {"queued"}
        \/ reading = "send" /\ Next1(rpart).cmd = c
        \/ \E o \in Operators : opc[o] = "send" /\ ocmd[o] = c

(* GET /v1/commands/execution never shows an outcome no record states.       *)
ReadModelAgrees ==
    \A c \in Commands :
        /\ exec[c] = "COMPLETED" => "COMPLETED" \in durable[c]
        /\ exec[c] \in {"FAILED", "TIMEOUT"} =>
             exec[c] \in durable[c] \/ dlqStored[c] # NoEntry

(* With nothing lost and everything consumed it shows the recorded outcome,  *)
(* although messages come twice and the dead-letter events, which tell an    *)
(* outcome too, travel on another partition than the vehicle's: they may be  *)
(* applied before, between or after those.                                  *)
ReadModelSettles ==
    (/\ Faults \subseteq {"duplicate"} /\ crashes = 0
     /\ \A p \in Partitions : log[p] = <<>>) =>
        \A c \in Commands :
            \A t \in {"COMPLETED", "FAILED", "TIMEOUT"} : t \in durable[c] => exec[c] = t

(* The QUEUED record is c's one ticket to the vehicle.  Once it is stored    *)
(* and no worker is on the run, a restart, a re-delivery or a replay may     *)
(* queue c again: nothing comes of it any more, no request and no record.    *)
Ended(c) ==
    /\ "QUEUED" \in durable[c]
    /\ \A w \in Workers : wcmd[w] = c => wpc[w] \notin RunPcs

EndedRunsAreFinal ==
    [][\A c \in Commands : Ended(c) =>
         /\ Ended(c)'
         /\ durable'[c] = durable[c] /\ attempts'[c] = attempts[c]
         /\ (c \in applied' <=> c \in applied) /\ (c \in rejected' <=> c \in rejected)]_vars

\* The RECEIVED message of c is still to be handed to the orchestrator.
Unread(c) ==
    \E i \in 1 .. Len(log["ground"]) :
        /\ log["ground"][i] = Message(c, "RECEIVED")
        /\ i = 1 /\ rpart = "ground" => reading # "commit"

OnItsWay(c) ==
    \/ "QUEUED" \in durable[c]
    \/ \E i \in 1 .. Len(queue) : queue[i] = c
    \/ \E w \in Workers : wcmd[w] = c /\ wpc[w] = "queued"
    \/ terminal[c] = "" /\ Unread(c)

\* Read before main attached the orchestrator; refused by a full queue; QUEUED not stored.
LetGo(c) ==
    \/ ~attached /\ log["ground"] # <<>> /\ Next1("ground") = Message(c, "RECEIVED")
    \/ reading = "send" /\ Next1(rpart).cmd = c /\ Len(queue) >= QueueCapacity
    \/ /\ "store" \in Faults
       /\ \E w \in Workers : wcmd[w] = c /\ wpc[w] = "queued" /\ wpc'[w] = "idle"

(* An accepted command is on its way to its run unless Kafka missed it, and  *)
(* nothing but a crash and the three drops above takes it off that way: not  *)
(* a second delivery, a mark in flight, a terminal entry or a replay.        *)
NoCommandSlipsAway ==
    [][\A c \in Commands :
         /\ OnItsWay(c) => OnItsWay(c)' \/ crashes' # crashes \/ LetGo(c)
         /\ "RECEIVED" \in durable'[c] \ durable[c] =>
              OnItsWay(c)' \/ Faults \intersect {"publish", "answer"} # {}]_vars

(* The promise of CommandOutcome, read off the stored records. *)
Phase(c) ==
    CASE "COMPLETED" \in durable[c] -> "completed"
      [] durable[c] \intersect {"FAILED", "TIMEOUT"} # {} -> "failed"
      [] OTHER -> IF "SENT" \in durable[c] THEN "running"
                  ELSE IF "RECEIVED" \in durable[c] THEN "accepted" ELSE "new"

Outcome == INSTANCE CommandOutcome WITH phase <- [c \in Commands |-> Phase(c)]

(* Submission, orchestration, restarts and replays implement CommandOutcome. *)
ImplementsOutcome == Outcome!Spec

(* A command accepted by POST .../commands reaches an outcome in the read   *)
(* model if nothing fails and the queue has room: every stage hands it on.  *)
EveryCommandDecided ==
    \A c \in Commands :
        "RECEIVED" \in durable[c] ~> exec[c] \in {"COMPLETED", "FAILED", "TIMEOUT"}

(* Whatever fails, a mark in inFlight is dropped again. *)
InFlightEnds == \A c \in Commands : c \in inFlight ~> c \notin inFlight

(* README.md: a replayed command "follows the existing                      *)
(* scheduling/execution/reconciliation path".  So once its run is over the  *)
(* vehicle has had a request more than those that exhausted its attempts.   *)
ReplayedCommandRuns ==
    \A c \in Commands :
        dlq[c].state = "REPLAYED" /\ c \notin inFlight \union rejected => attempts[c] > MaxAttempts

(* README.md: resolve marks an entry "resolved without replay".  So a       *)
(* resolved entry does not turn into a replayed one.                        *)
ResolvedStaysResolved ==
    [][\A c \in Commands : dlq[c].state = "RESOLVED" => dlq'[c].state = "RESOLVED"]_vars
=============================================================================
