------------------------ MODULE CommandPipelineSafety ------------------------
(***************************************************************************)
(* The vehicle is driven by one run per command, and the records say what   *)
(* it answered: the two invariants of CommandPipeline that matter most, for *)
(* any commands, workers, operators, queue, restarts and losses.            *)
(* The argument: the store takes a command's QUEUED record once, a run goes *)
(* past that record only if it was the one taken, and nothing but a run      *)
(* counts attempts.  So a run knows what the vehicle has done for its        *)
(* command (RunOK), and whoever dead-letters, replays or resolves a command *)
(* finds its attempts used up, or a refusal, for good (Exhausted).          *)
(* The second half shows that this makes the path implement CommandOutcome. *)
(* The last part shows that a run which is over is final.                   *)
(***************************************************************************)
EXTENDS CommandPipelineProofs

\* Nothing more is asked of the vehicle for c, which did not apply it.
Exhausted(c) ==
    /\ "QUEUED" \in durable[c] /\ c \notin applied
    /\ (attempts[c] = MaxAttempts \/ c \in rejected)

Reported(c) ==
    \/ "FAILED" \in durable[c] \/ "TIMEOUT" \in durable[c]
    \/ dlq[c].state # "none" \/ dlqStored[c].state # "none"

CommandOK(c) ==
    /\ attempts[c] <= MaxAttempts
    /\ "QUEUED" \notin durable[c] => attempts[c] = 0 /\ c \notin applied \union rejected
    /\ "COMPLETED" \in durable[c] => c \in applied
    /\ Reported(c) => Exhausted(c)

\* What a worker with this command, at this place and attempt, may rely on.
RunOK(c, pc, attempt) ==
    /\ pc \in RunPcs => "QUEUED" \in durable[c]
    /\ pc \in {"sent", "attempt", "retry"} => c \notin applied \union rejected
    /\ pc = "sent" => attempts[c] = 0
    /\ pc = "attempt" => attempts[c] = attempt - 1 /\ attempt <= MaxAttempts
    /\ pc = "retry" => attempts[c] = attempt /\ attempt < MaxAttempts
    /\ pc \in {"ack", "executing", "completed", "telemetry"} => c \in applied
    /\ pc \in {"fail", "enqueue", "persist"} => Exhausted(c)

WorkerOK(w) == RunOK(wcmd[w], wpc[w], wattempt[w])

OwnRuns ==
    \A v, w \in Workers :
        wpc[v] \in RunPcs /\ wpc[w] \in RunPcs /\ wcmd[v] = wcmd[w] => v = w

OperatorOK(o) == opc[o] # "idle" => Exhausted(ocmd[o])

RunInv ==
    /\ \A c \in Commands : CommandOK(c)
    /\ \A w \in Workers : wpc[w] # "idle" => WorkerOK(w)
    /\ OwnRuns
    /\ \A o \in Operators : OperatorOK(o)

-----------------------------------------------------------------------------
LEMMA RunParts ==
    ASSUME TInv
    PROVE  /\ durable \in [Commands -> SUBSET Tags]
           /\ attempts \in [Commands -> Nat]
           /\ dlqStored \in [Commands -> Entries] /\ dlq \in [Commands -> Entries]
           /\ MaxAttempts \in Nat \ {0}
BY PipelineAssumption DEF TInv, TypeOK, WorldTypeOK, DlqTypeOK

(* Ingest adds at most the record it was given. *)
LEMMA IngestAdds ==
    ASSUME TInv, NEW c \in Commands, NEW tag \in Tags, Accepted(c, tag) \/ Refused(c, tag)
    PROVE  \A d \in Commands :
               /\ durable[d] \subseteq durable'[d]
               /\ \A t \in durable'[d] : t \in durable[d] \/ (d = c /\ t = tag)
<1>1. durable' = durable \/ durable' = [durable EXCEPT ![c] = @ \union {tag}]
  BY DEF Accepted, Refused
<1>2. QED
  BY <1>1, RunParts

-----------------------------------------------------------------------------
(* What a step leaves as it was. *)
LEMMA CommandsKept ==
    ASSUME TInv, RunInv, NEW c \in Commands, NEW tag \in Tags, Accepted(c, tag) \/ Refused(c, tag),
           tag = "COMPLETED" => c \in applied,
           tag \in {"FAILED", "TIMEOUT"} => Exhausted(c),
           UNCHANGED <<dlqStored, attempts, applied, rejected, dlq>>
    PROVE  \A d \in Commands : CommandOK(d)'
<1> SUFFICES ASSUME NEW d \in Commands PROVE CommandOK(d)'
  OBVIOUS
<1>1. /\ durable[d] \subseteq durable'[d]
      /\ \A t \in durable'[d] : t \in durable[d] \/ (d = c /\ t = tag)
  BY IngestAdds
<1>2. CommandOK(d)
  BY DEF RunInv
<1>3. Exhausted(d) => Exhausted(d)'
  BY <1>1 DEF Exhausted
<1>4. Reported(d)' => Reported(d) \/ Exhausted(d)
  BY <1>1 DEF Reported
<1>5. QED
  BY <1>1, <1>2, <1>3, <1>4 DEF CommandOK

LEMMA EntriesKept ==
    ASSUME TInv, RunInv, NEW c \in Commands, Exhausted(c),
           UNCHANGED <<durable, attempts, applied, rejected>>,
           \A d \in Commands : d # c => dlq'[d] = dlq[d] /\ dlqStored'[d] = dlqStored[d]
    PROVE  \A d \in Commands : CommandOK(d)'
<1> SUFFICES ASSUME NEW d \in Commands PROVE CommandOK(d)'
  OBVIOUS
<1>1. CommandOK(d)
  BY DEF RunInv
<1>2. Exhausted(d) => Exhausted(d)'
  BY DEF Exhausted
<1>3. Reported(d)' => Reported(d) \/ Exhausted(d)
  BY DEF Reported
<1>4. QED
  BY <1>1, <1>2, <1>3 DEF CommandOK

LEMMA WorkerKept ==
    ASSUME NEW v, WorkerOK(v),
           wpc'[v] = wpc[v], wcmd'[v] = wcmd[v], wattempt'[v] = wattempt[v],
           durable[wcmd[v]] \subseteq durable'[wcmd[v]],
           attempts'[wcmd[v]] = attempts[wcmd[v]],
           wcmd[v] \in applied' <=> wcmd[v] \in applied,
           wcmd[v] \in rejected' <=> wcmd[v] \in rejected
    PROVE  WorkerOK(v)'
BY DEF WorkerOK, RunOK, Exhausted

LEMMA OthersKept ==
    ASSUME TInv, RunInv, NEW w \in Workers,
           \A v \in Workers \ {w} :
               wpc'[v] = wpc[v] /\ wcmd'[v] = wcmd[v] /\ wattempt'[v] = wattempt[v],
           \A d \in Commands : durable[d] \subseteq durable'[d],
           UNCHANGED <<attempts, applied, rejected>>
    PROVE  \A v \in Workers \ {w} : wpc'[v] # "idle" => WorkerOK(v)'
<1> SUFFICES ASSUME NEW v \in Workers \ {w}, wpc'[v] # "idle" PROVE WorkerOK(v)'
  OBVIOUS
<1>1. wpc[v] # "idle" /\ wcmd[v] \in Commands
  BY WorkerParts
<1>2. WorkerOK(v)
  BY <1>1 DEF RunInv
<1>3. QED
  BY <1>1, <1>2, WorkerKept

LEMMA OperatorsKept ==
    ASSUME TInv, RunInv,
           \A d \in Commands : durable[d] \subseteq durable'[d],
           UNCHANGED <<attempts, applied, rejected, opc, ocmd>>
    PROVE  \A o \in Operators : OperatorOK(o)'
BY DlqParts DEF RunInv, OperatorOK, Exhausted

LEMMA OwnRunsKept ==
    ASSUME OwnRuns,
           \A v \in Workers :
               wpc'[v] \in RunPcs => wpc[v] \in RunPcs /\ wcmd'[v] = wcmd[v]
    PROVE  OwnRuns'
BY DEF OwnRuns

(* A step outside the runs: nothing a run relies on changes. *)
LEMMA Quiet ==
    ASSUME TInv, RunInv, UNCHANGED <<attempts, applied, rejected>>, UNCHANGED workVars,
           \A d \in Commands : durable[d] \subseteq durable'[d],
           \A d \in Commands : CommandOK(d)',
           \A o \in Operators : OperatorOK(o)'
    PROVE  RunInv'
<1>1. UNCHANGED <<wpc, wcmd, wattempt>>
  BY DEF workVars
<1>2. \A v \in Workers : wpc'[v] # "idle" => WorkerOK(v)'
  BY <1>1, WorkerKept, WorkerParts DEF RunInv
<1>3. OwnRuns'
  BY <1>1 DEF RunInv, OwnRuns
<1>4. QED
  BY <1>2, <1>3 DEF RunInv

(* A step of a worker that is inside a run, or reports one, and moves to pc. *)
LEMMA WorkerMoves ==
    ASSUME TInv, RunInv, NEW w \in Workers, wpc[w] # "idle", NEW pc \in WorkerPcs,
           wpc' = [wpc EXCEPT ![w] = pc],
           UNCHANGED <<wcmd, attempts, applied, rejected, opc, ocmd>>,
           \A v \in Workers \ {w} : wattempt'[v] = wattempt[v],
           \A d \in Commands : durable[d] \subseteq durable'[d],
           \A d \in Commands : CommandOK(d)',
           pc # "idle" => WorkerOK(w)',
           pc \in RunPcs => wpc[w] \in RunPcs \/ \A v \in Workers :
               wpc[v] \in RunPcs => wcmd[v] # wcmd[w]
    PROVE  RunInv'
<1>1. /\ wpc'[w] = pc
      /\ \A v \in Workers \ {w} : wpc'[v] = wpc[v] /\ wcmd'[v] = wcmd[v]
      /\ wcmd' = wcmd
  BY WorkerParts
<1>2. \A v \in Workers : wpc'[v] # "idle" => WorkerOK(v)'
  BY <1>1, OthersKept
<1>3. \A o \in Operators : OperatorOK(o)'
  BY OperatorsKept
<1>4. OwnRuns'
  <2>1. OwnRuns
    BY DEF RunInv
  <2>2. CASE pc \in RunPcs => wpc[w] \in RunPcs
    BY <1>1, <2>1, <2>2, OwnRunsKept
  <2>3. CASE \A v \in Workers : wpc[v] \in RunPcs => wcmd[v] # wcmd[w]
    BY <1>1, <2>1, <2>3 DEF OwnRuns
  <2>4. QED
    BY <2>2, <2>3
<1>5. QED
  BY <1>2, <1>3, <1>4 DEF RunInv

-----------------------------------------------------------------------------
LEMMA InitRuns == Init => RunInv
<1> SUFFICES ASSUME Init PROVE RunInv
  OBVIOUS
<1>1. ASSUME NEW c \in Commands PROVE CommandOK(c)
  <2>1. durable[c] = {} /\ attempts[c] = 0 /\ applied = {} /\ rejected = {} /\ ~Reported(c)
    BY DEF Init, Reported, NoEntry
  <2>2. QED
    BY <2>1, PipelineAssumption DEF CommandOK
<1>2. OwnRuns
  BY DEF Init, OwnRuns, RunPcs
<1>3. QED
  BY <1>1, <1>2 DEF Init, RunInv, OperatorOK

LEMMA CrashRuns == ASSUME TInv, RunInv, Crash PROVE RunInv'
<1>1. UNCHANGED <<durable, dlqStored, attempts, applied, rejected>>
  BY DEF Crash
<1>2. ASSUME NEW c \in Commands PROVE CommandOK(c)'
  <2>1. CommandOK(c)
    BY DEF RunInv
  <2>2. dlq'[c].state = dlqStored[c].state
    <3>1. dlq'[c] = [dlqStored[c] EXCEPT !.exec = ""] /\ dlqStored[c] \in Entries
      BY RunParts DEF Crash
    <3>2. QED
      BY <3>1 DEF Entries
  <2>3. Reported(c)' => Reported(c)
    BY <1>1, <2>2 DEF Reported
  <2>4. QED
    BY <1>1, <2>1, <2>3 DEF CommandOK, Exhausted
<1>3. OwnRuns'
  BY DEF Crash, OwnRuns, RunPcs
<1>4. \A o \in Operators : OperatorOK(o)'
  BY DEF Crash, OperatorOK
<1>5. \A w \in Workers : wpc'[w] = "idle"
  BY DEF Crash
<1>6. QED
  BY <1>2, <1>3, <1>4, <1>5 DEF RunInv

(* Attach and the consumer touch the maps and the queue only. *)
LEMMA ConsumerRuns == ASSUME TInv, RunInv, Attach \/ Consumer PROVE RunInv'
<1>1. UNCHANGED worldVars /\ UNCHANGED workVars /\ UNCHANGED dlqVars
  BY DEF Attach, Consumer, Consume, ConsumerMark, ConsumerSend, ConsumerCommit
<1>2. UNCHANGED <<durable, dlqStored, attempts, applied, rejected, dlq, opc, ocmd>>
  BY <1>1 DEF worldVars, dlqVars
<1>3. \A c \in Commands : CommandOK(c)'
  BY <1>2 DEF RunInv, CommandOK, Reported, Exhausted
<1>4. \A o \in Operators : OperatorOK(o)'
  BY <1>2, OperatorsKept
<1>5. QED
  BY <1>1, <1>2, <1>3, <1>4, Quiet

LEMMA DispatchRuns == ASSUME TInv, RunInv, NEW c \in Commands, Dispatch(c) PROVE RunInv'
<1>1. "RECEIVED" \in Tags /\ UNCHANGED <<dlqStored, attempts, applied, rejected, dlq, opc, ocmd>>
  BY DEF Dispatch, Tags, dlqVars
<1>2. Accepted(c, "RECEIVED") \/ Refused(c, "RECEIVED")
  BY DEF Dispatch
<1>3. \A d \in Commands : CommandOK(d)'
  BY <1>1, <1>2, CommandsKept
<1>4. \A d \in Commands : durable[d] \subseteq durable'[d]
  BY <1>1, <1>2, IngestAdds
<1>5. \A o \in Operators : OperatorOK(o)'
  BY <1>1, <1>4, OperatorsKept
<1>6. QED
  BY <1>1, <1>3, <1>4, <1>5, Quiet DEF Dispatch

-----------------------------------------------------------------------------
LEMMA TakeRuns == ASSUME TInv, RunInv, NEW w \in Workers, Take(w) PROVE RunInv'
<1>1. /\ wpc[w] = "idle" /\ wpc' = [wpc EXCEPT ![w] = "queued"]
      /\ wcmd' = [wcmd EXCEPT ![w] = Head(queue)]
      /\ UNCHANGED <<durable, dlqStored, attempts, applied, rejected, wattempt, dlq, opc, ocmd>>
  BY DEF Take, worldVars, dlqVars
<1>2. \A v \in Workers \ {w} :
          wpc'[v] = wpc[v] /\ wcmd'[v] = wcmd[v] /\ wattempt'[v] = wattempt[v]
  BY <1>1, WorkerParts
<1>3. wpc'[w] = "queued" /\ "queued" \notin RunPcs
  BY <1>1, WorkerParts DEF RunPcs
<1>4. WorkerOK(w)'
  BY <1>3 DEF WorkerOK, RunOK
<1>5. \A v \in Workers : wpc'[v] # "idle" => WorkerOK(v)'
  BY <1>1, <1>2, <1>4, OthersKept
<1>6. OwnRuns'
  BY <1>2, <1>3, OwnRunsKept DEF RunInv
<1>7. \A c \in Commands : CommandOK(c)'
  BY <1>1 DEF RunInv, CommandOK, Reported, Exhausted
<1>8. \A o \in Operators : OperatorOK(o)'
  BY <1>1, OperatorsKept
<1>9. QED
  BY <1>5, <1>6, <1>7, <1>8 DEF RunInv

(* A run that emits a record whose refusal ends it. *)
LEMMA EmitRuns ==
    ASSUME TInv, RunInv, NEW w \in Workers, NEW pc, pc # "idle",
           NEW tag \in Tags, NEW next \in RunPcs, EmitOrGiveUp(w, pc, tag, next),
           \A v \in Workers \ {w} : wattempt'[v] = wattempt[v],
           tag \notin {"FAILED", "TIMEOUT"}, tag = "COMPLETED" => wcmd[w] \in applied,
           RunOK(wcmd[w], pc, wattempt[w]) /\ Accepted(wcmd[w], tag) =>
               RunOK(wcmd[w], next, wattempt[w])',
           pc \in RunPcs \/ tag = "QUEUED"
    PROVE  RunInv'
<1>1. wpc[w] = pc /\ wcmd[w] \in Commands /\ RunOK(wcmd[w], pc, wattempt[w])
  BY WorkerParts DEF EmitOrGiveUp, RunInv, WorkerOK
<1>2. UNCHANGED <<dlqStored, attempts, applied, rejected, wcmd, dlq, opc, ocmd>>
  BY DEF EmitOrGiveUp, dlqVars
<1>3. Accepted(wcmd[w], tag) \/ Refused(wcmd[w], tag)
  BY DEF EmitOrGiveUp
<1>4. \A d \in Commands : CommandOK(d)'
  BY <1>1, <1>2, <1>3, CommandsKept
<1>5. \A d \in Commands : durable[d] \subseteq durable'[d]
  BY <1>1, <1>3, IngestAdds
<1>6. CASE wpc' = [wpc EXCEPT ![w] = "idle"]
  <2>1. "idle" \in WorkerPcs /\ "idle" \notin RunPcs
    BY DEF WorkerPcs, RunPcs
  <2>2. QED
    BY <1>1, <1>2, <1>4, <1>5, <1>6, <2>1, WorkerMoves
<1>7. CASE Accepted(wcmd[w], tag) /\ wpc' = [wpc EXCEPT ![w] = next]
  <2>1. next \in WorkerPcs /\ wpc'[w] = next
    BY <1>7, WorkerParts DEF WorkerPcs
  <2>2. WorkerOK(w)'
    BY <1>1, <1>2, <1>7, <2>1 DEF WorkerOK, RunOK
  <2>3. pc \in RunPcs \/ \A v \in Workers : wpc[v] \in RunPcs => wcmd[v] # wcmd[w]
    <3>1. CASE tag = "QUEUED"
      <4>1. "QUEUED" \notin durable[wcmd[w]]
        BY <1>7, <3>1 DEF Accepted
      <4>2. \A v \in Workers : wpc[v] \in RunPcs => "QUEUED" \in durable[wcmd[v]]
        BY DEF RunInv, WorkerOK, RunOK, RunPcs
      <4>3. QED
        BY <4>1, <4>2
    <3>2. QED
      BY <3>1
  <2>4. QED
    BY <1>1, <1>2, <1>4, <1>5, <1>7, <2>1, <2>2, <2>3, WorkerMoves
<1>8. QED
  BY <1>6, <1>7 DEF EmitOrGiveUp, Finish

LEMMA EmitActionsRuns ==
    ASSUME TInv, RunInv, NEW w \in Workers,
           \/ EmitQueued(w) \/ EmitSent(w) \/ EmitAck(w) \/ EmitExecuting(w) \/ EmitCompleted(w)
    PROVE  RunInv'
<1>1. /\ {"QUEUED", "SENT", "ACK", "EXECUTING", "COMPLETED"} \subseteq Tags
      /\ {"sent", "attempt", "ack", "executing", "completed", "telemetry"} \subseteq RunPcs
      /\ RunPcs \subseteq WorkerPcs
  BY DEF Tags, WorkerPcs, RunPcs
<1>2. \A v \in Workers \ {w} : wattempt'[v] = wattempt[v]
  BY WorkerParts DEF EmitQueued, EmitSent, EmitAck, EmitExecuting, EmitCompleted
<1>3. UNCHANGED <<attempts, applied, rejected, wcmd>>
  BY DEF EmitQueued, EmitSent, EmitAck, EmitExecuting, EmitCompleted, EmitOrGiveUp
<1>4. wpc[w] # "idle" => WorkerOK(w) /\ CommandOK(wcmd[w]) /\ wcmd[w] \in Commands
  BY WorkerParts DEF RunInv
<1>5. \A tag \in Tags : wpc[w] # "idle" /\ Accepted(wcmd[w], tag) =>
          durable'[wcmd[w]] = durable[wcmd[w]] \union {tag}
  BY <1>4, RunParts DEF Accepted
<1>6. CASE EmitQueued(w)
  <2>1. wpc[w] = "queued"
    BY <1>6 DEF EmitQueued, EmitOrGiveUp
  <2>2. Accepted(wcmd[w], "QUEUED") => RunOK(wcmd[w], "sent", wattempt[w])'
    BY <1>1, <1>3, <1>4, <1>5, <2>1 DEF Accepted, CommandOK, RunOK
  <2>3. QED
    BY <1>1, <1>2, <1>6, <2>2, EmitRuns DEF EmitQueued
<1>7. CASE EmitSent(w)
  <2>1. wpc[w] = "sent" /\ wattempt'[w] = 1
    BY <1>7, WorkerParts DEF EmitSent, EmitOrGiveUp
  <2>2. Accepted(wcmd[w], "SENT") => RunOK(wcmd[w], "attempt", wattempt[w])'
    BY <1>1, <1>3, <1>4, <1>5, <2>1, RunParts DEF WorkerOK, RunOK
  <2>3. QED
    BY <1>1, <1>2, <1>7, <2>2, EmitRuns DEF EmitSent
<1>8. CASE EmitAck(w)
  <2>1. wpc[w] = "ack"
    BY <1>8 DEF EmitAck, EmitOrGiveUp
  <2>2. Accepted(wcmd[w], "ACK") => RunOK(wcmd[w], "executing", wattempt[w])'
    BY <1>1, <1>3, <1>4, <1>5, <2>1 DEF WorkerOK, RunOK
  <2>3. QED
    BY <1>1, <1>2, <1>8, <2>2, EmitRuns DEF EmitAck
<1>9. CASE EmitExecuting(w)
  <2>1. wpc[w] = "executing"
    BY <1>9 DEF EmitExecuting, EmitOrGiveUp
  <2>2. Accepted(wcmd[w], "EXECUTING") => RunOK(wcmd[w], "completed", wattempt[w])'
    BY <1>1, <1>3, <1>4, <1>5, <2>1 DEF WorkerOK, RunOK
  <2>3. QED
    BY <1>1, <1>2, <1>9, <2>2, EmitRuns DEF EmitExecuting
<1>10. CASE EmitCompleted(w)
  <2>1. wpc[w] = "completed" /\ wcmd[w] \in applied
    BY <1>4, <1>10 DEF EmitCompleted, EmitOrGiveUp, WorkerOK, RunOK
  <2>2. Accepted(wcmd[w], "COMPLETED") => RunOK(wcmd[w], "telemetry", wattempt[w])'
    BY <1>1, <1>3, <1>4, <1>5, <2>1 DEF WorkerOK, RunOK
  <2>3. QED
    BY <1>1, <1>2, <1>10, <2>1, <2>2, EmitRuns DEF EmitCompleted
<1>11. QED
  BY <1>6, <1>7, <1>8, <1>9, <1>10

(* The run of a command is alone with it: nobody else counts on its attempts. *)
LEMMA ExecuteRuns == ASSUME TInv, RunInv, NEW w \in Workers, Execute(w) PROVE RunInv'
<1> DEFINE c == wcmd[w]
<1>1. wpc[w] = "attempt" /\ c \in Commands /\ WorkerOK(w) /\ CommandOK(c)
  BY ExecuteParts, WorkerParts DEF RunInv
<1>2. /\ "QUEUED" \in durable[c] /\ c \notin applied /\ c \notin rejected
      /\ attempts[c] = wattempt[w] - 1 /\ wattempt[w] <= MaxAttempts
      /\ wattempt[w] \in Nat /\ attempts[c] \in Nat /\ MaxAttempts \in Nat
  BY <1>1, RunParts, WorkerParts DEF WorkerOK, RunOK, RunPcs
<1>3. ~Exhausted(c)
  BY <1>2 DEF Exhausted
<1>4. /\ UNCHANGED <<durable, dlqStored, wcmd, wattempt, dlq, opc, ocmd>>
      /\ attempts' = [attempts EXCEPT ![c] = @ + 1]
      /\ applied' = applied \/ applied' = applied \union {c}
      /\ rejected' = rejected \/ rejected' = rejected \union {c}
  BY ExecuteParts DEF dlqVars
<1>5. attempts'[c] = wattempt[w] /\ \A d \in Commands \ {c} : attempts'[d] = attempts[d]
  BY <1>1, <1>2, <1>4, RunParts
<1>6. ASSUME NEW d \in Commands PROVE CommandOK(d)'
  <2>1. CASE d = c
    <3>1. ~Reported(c)
      BY <1>1, <1>3 DEF CommandOK
    <3>2. ~Reported(c)'
      BY <1>4, <3>1 DEF Reported
    <3>3. QED
      BY <1>1, <1>2, <1>4, <1>5, <2>1, <3>2 DEF CommandOK
  <2>2. CASE d # c
    <3>1. /\ CommandOK(d) /\ attempts'[d] = attempts[d]
          /\ (d \in applied' <=> d \in applied) /\ (d \in rejected' <=> d \in rejected)
      BY <1>4, <1>5, <2>2 DEF RunInv
    <3>2. QED
      BY <1>4, <3>1 DEF CommandOK, Reported, Exhausted
  <2>3. QED
    BY <2>1, <2>2
<1>7. ASSUME NEW o \in Operators PROVE OperatorOK(o)'
  <2>1. OperatorOK(o)
    BY DEF RunInv
  <2>2. CASE opc[o] # "idle"
    <3>1. ocmd[o] \in Commands \ {c} /\ Exhausted(ocmd[o])
      BY <1>3, <2>1, <2>2, DlqParts DEF OperatorOK
    <3>2. QED
      BY <1>4, <1>5, <3>1 DEF OperatorOK, Exhausted
  <2>3. QED
    BY <1>4, <2>2 DEF OperatorOK
<1>8. \A v \in Workers \ {w} : wpc'[v] = wpc[v]
  BY ExecuteParts, WorkerParts
<1>9. ASSUME NEW v \in Workers \ {w}, wpc'[v] # "idle" PROVE WorkerOK(v)'
  <2>1. wpc[v] # "idle" /\ wcmd[v] \in Commands /\ WorkerOK(v) /\ wpc[v] \in WorkerPcs
    BY <1>8, <1>9, WorkerParts DEF RunInv
  <2>2. CASE wcmd[v] # c
    <3>1. /\ durable[wcmd[v]] \subseteq durable'[wcmd[v]]
          /\ attempts'[wcmd[v]] = attempts[wcmd[v]]
          /\ wcmd[v] \in applied' <=> wcmd[v] \in applied
          /\ wcmd[v] \in rejected' <=> wcmd[v] \in rejected
      BY <1>4, <1>5, <2>1, <2>2
    <3>2. QED
      BY <1>4, <1>8, <2>1, <3>1, WorkerKept
  <2>3. CASE wcmd[v] = c
    <3>1. wpc[v] \notin RunPcs
      BY <1>1, <2>3 DEF RunInv, OwnRuns, RunPcs
    <3>2. wpc[v] \notin {"enqueue", "persist"}
      BY <1>3, <2>1, <2>3 DEF WorkerOK, RunOK
    <3>3. wpc'[v] = "queued"
      BY <1>8, <2>1, <3>1, <3>2 DEF WorkerPcs
    <3>4. QED
      BY <3>3 DEF WorkerOK, RunOK, RunPcs
  <2>4. QED
    BY <2>2, <2>3
<1>10. WorkerOK(w)' /\ wpc'[w] \in RunPcs
  <2>1. CASE applied' = applied \union {c} /\ wpc' = [wpc EXCEPT ![w] = "ack"]
    <3>1. wpc'[w] = "ack" /\ c \in applied'
      BY <2>1, WorkerParts
    <3>2. QED
      BY <1>2, <1>4, <3>1 DEF WorkerOK, RunOK, RunPcs
  <2>2. CASE /\ wattempt[w] = MaxAttempts \/ rejected' = rejected \union {c}
             /\ applied' = applied /\ wpc' = [wpc EXCEPT ![w] = "fail"]
    <3>1. attempts'[c] = MaxAttempts \/ c \in rejected'
      BY <1>5, <2>2
    <3>2. wpc'[w] = "fail" /\ Exhausted(c)'
      BY <1>2, <1>4, <2>2, <3>1, WorkerParts DEF Exhausted
    <3>3. QED
      BY <1>2, <1>4, <3>2 DEF WorkerOK, RunOK, RunPcs, Exhausted
  <2>3. CASE /\ wattempt[w] # MaxAttempts /\ UNCHANGED <<applied, rejected>>
             /\ wpc' = [wpc EXCEPT ![w] = "retry"]
    <3>1. wpc'[w] = "retry" /\ wattempt[w] < MaxAttempts
      BY <1>2, <2>3, WorkerParts
    <3>2. QED
      BY <1>2, <1>4, <1>5, <2>3, <3>1 DEF WorkerOK, RunOK, RunPcs
  <2>4. QED
    BY <2>1, <2>2, <2>3, ExecuteParts
<1>11. OwnRuns'
  BY <1>1, <1>4, <1>8, OwnRunsKept DEF RunInv, RunPcs
<1>12. QED
  BY <1>6, <1>7, <1>9, <1>10, <1>11 DEF RunInv

LEMMA ReportRuns ==
    ASSUME TInv, RunInv, NEW w \in Workers, EmitRetry(w) \/ EmitTelemetry(w) \/ EmitFailure(w)
    PROVE  RunInv'
<1>1. wpc[w] \in RunPcs /\ wpc[w] # "idle" /\ wcmd[w] \in Commands /\ WorkerOK(w)
  BY WorkerParts DEF EmitRetry, EmitTelemetry, EmitFailure, RunPcs, RunInv
<1>2. /\ {"RETRY", "TELEMETRY", "FAILED", "TIMEOUT"} \subseteq Tags
      /\ {"idle", "attempt", "enqueue"} \subseteq WorkerPcs /\ failure[w] \in {"FAILED", "TIMEOUT"}
  BY WorkerParts DEF Tags, WorkerPcs, RunPcs
<1>3. /\ UNCHANGED <<dlqStored, attempts, applied, rejected, wcmd, dlq, opc, ocmd>>
      /\ \A v \in Workers \ {w} : wattempt'[v] = wattempt[v]
  BY WorkerParts DEF EmitRetry, EmitTelemetry, EmitFailure, dlqVars
<1>4. PICK tag \in {"RETRY", "TELEMETRY", "FAILED", "TIMEOUT"} :
          /\ Accepted(wcmd[w], tag) \/ Refused(wcmd[w], tag)
          /\ tag \in {"FAILED", "TIMEOUT"} => wpc[w] = "fail"
  BY <1>2 DEF EmitRetry, EmitTelemetry, EmitFailure
<1>5. \A d \in Commands : durable[d] \subseteq durable'[d]
  BY <1>1, <1>2, <1>4, IngestAdds
<1>6. \A d \in Commands : CommandOK(d)'
  <2>1. wpc[w] = "fail" => Exhausted(wcmd[w])
    BY <1>1 DEF WorkerOK, RunOK
  <2>2. QED
    BY <1>1, <1>2, <1>3, <1>4, <2>1, CommandsKept
<1>7. CASE EmitRetry(w)
  <2>1. /\ wpc[w] = "retry" /\ wpc' = [wpc EXCEPT ![w] = "attempt"]
        /\ wpc'[w] = "attempt" /\ wattempt'[w] = wattempt[w] + 1
    BY <1>7, WorkerParts DEF EmitRetry
  <2>2. WorkerOK(w)'
    BY <1>1, <1>3, <1>5, <2>1, RunParts, WorkerParts DEF WorkerOK, RunOK, RunPcs
  <2>3. QED
    BY <1>1, <1>2, <1>3, <1>5, <1>6, <2>1, <2>2, WorkerMoves
<1>8. CASE EmitTelemetry(w)
  <2>1. wpc' = [wpc EXCEPT ![w] = "idle"]
    BY <1>8 DEF EmitTelemetry, Finish
  <2>2. QED
    BY <1>1, <1>2, <1>3, <1>5, <1>6, <2>1, WorkerMoves
<1>9. CASE EmitFailure(w)
  <2>1. /\ wpc[w] = "fail" /\ wpc' = [wpc EXCEPT ![w] = "enqueue"] /\ wpc'[w] = "enqueue"
    BY <1>9, WorkerParts DEF EmitFailure, Finish
  <2>2. Exhausted(wcmd[w])'
    BY <1>1, <1>3, <1>5, <2>1 DEF WorkerOK, RunOK, Exhausted
  <2>3. WorkerOK(w)'
    BY <1>3, <2>1, <2>2 DEF WorkerOK, RunOK, RunPcs, Exhausted
  <2>4. QED
    BY <1>1, <1>2, <1>3, <1>5, <1>6, <2>1, <2>3, WorkerMoves
<1>10. QED
  BY <1>7, <1>8, <1>9

LEMMA StoredEntry ==
    ASSUME TInv, NEW c \in Commands, NEW e, PersistEntry(c, e)
    PROVE  \A d \in Commands : d # c => dlqStored'[d] = dlqStored[d]
BY RunParts DEF PersistEntry

LEMMA DeadLetterRuns ==
    ASSUME TInv, RunInv, NEW w \in Workers, Enqueue(w) \/ PersistEnqueued(w) PROVE RunInv'
<1>1. /\ wpc[w] \in {"enqueue", "persist"} /\ wpc[w] # "idle"
      /\ wcmd[w] \in Commands /\ WorkerOK(w)
  BY WorkerParts DEF Enqueue, PersistEnqueued, RunInv
<1>2. Exhausted(wcmd[w])
  BY <1>1 DEF WorkerOK, RunOK
<1>3. /\ UNCHANGED <<durable, attempts, applied, rejected, wcmd, wattempt, opc, ocmd>>
      /\ \A v \in Workers \ {w} : wattempt'[v] = wattempt[v]
      /\ \A d \in Commands : durable[d] \subseteq durable'[d]
  BY DEF Enqueue, PersistEnqueued, worldVars, dlqVars
<1>4. \A d \in Commands : d # wcmd[w] => dlq'[d] = dlq[d] /\ dlqStored'[d] = dlqStored[d]
  <2>1. CASE Enqueue(w)
    BY <2>1, RunParts DEF Enqueue, worldVars
  <2>2. CASE PersistEnqueued(w)
    BY <1>1, <2>2, StoredEntry DEF PersistEnqueued, dlqVars
  <2>3. QED
    BY <2>1, <2>2
<1>5. \A d \in Commands : CommandOK(d)'
  BY <1>1, <1>2, <1>3, <1>4, EntriesKept
<1>6. PICK pc \in {"idle", "persist"} : wpc' = [wpc EXCEPT ![w] = pc]
  BY DEF Enqueue, PersistEnqueued
<1>7. pc \in WorkerPcs /\ pc \notin RunPcs /\ wpc'[w] = pc
  BY <1>6, WorkerParts DEF WorkerPcs, RunPcs
<1>8. pc # "idle" => WorkerOK(w)'
  BY <1>2, <1>3, <1>6, <1>7 DEF WorkerOK, RunOK, RunPcs, Exhausted
<1>9. QED
  BY <1>1, <1>3, <1>5, <1>6, <1>7, <1>8, WorkerMoves

-----------------------------------------------------------------------------
(* An operator acts on an entry, and entries belong to exhausted commands. *)
LEMMA OperateRuns == ASSUME TInv, RunInv, NEW o \in Operators, Operate(o) PROVE RunInv'
<1>1. /\ UNCHANGED <<durable, attempts, applied, rejected>> /\ UNCHANGED workVars
      /\ \A d \in Commands : durable[d] \subseteq durable'[d]
  BY DEF Operate, ReplayStep, ReplayReset, ReplayMark, ReplaySend, ReplayWrite,
     PersistAction, ReplayCheck, Resolve, worldVars
<1>2. PICK c \in Commands : /\ Exhausted(c)
                            /\ (ocmd' = ocmd /\ ocmd[o] = c) \/ ocmd' = [ocmd EXCEPT ![o] = c]
                            /\ \A d \in Commands : d # c => dlq'[d] = dlq[d] /\ dlqStored'[d] = dlqStored[d]
  <2>1. ASSUME NEW c \in Commands, ReplayCheck(o, c) \/ Resolve(o, c)
        PROVE  /\ Exhausted(c) /\ ocmd' = [ocmd EXCEPT ![o] = c]
               /\ \A d \in Commands : d # c => dlq'[d] = dlq[d] /\ dlqStored'[d] = dlqStored[d]
    <3>1. Reported(c)
      BY <2>1 DEF ReplayCheck, Resolve, Reported
    <3>2. Exhausted(c)
      BY <3>1 DEF RunInv, CommandOK
    <3>3. QED
      BY <2>1, <3>2, RunParts DEF ReplayCheck, Resolve, worldVars
  <2>2. ASSUME ReplayStep(o)
        PROVE  /\ ocmd[o] \in Commands /\ Exhausted(ocmd[o]) /\ ocmd' = ocmd
               /\ \A d \in Commands :
                    d # ocmd[o] => dlq'[d] = dlq[d] /\ dlqStored'[d] = dlqStored[d]
    <3>1. opc[o] # "idle" /\ ocmd[o] \in Commands
      BY <2>2, DlqParts
         DEF ReplayStep, ReplayReset, ReplayMark, ReplaySend, ReplayWrite, PersistAction
    <3>2. Exhausted(ocmd[o])
      BY <3>1 DEF RunInv, OperatorOK
    <3>3. CASE PersistAction(o)
      BY <3>1, <3>2, <3>3, StoredEntry DEF PersistAction
    <3>4. CASE ReplayReset(o) \/ ReplayMark(o) \/ ReplaySend(o) \/ ReplayWrite(o)
      BY <3>1, <3>2, <3>4, RunParts
         DEF ReplayReset, ReplayMark, ReplaySend, ReplayWrite, worldVars
    <3>5. QED
      BY <2>2, <3>3, <3>4 DEF ReplayStep
  <2>3. QED
    BY <2>1, <2>2 DEF Operate
<1>3. \A d \in Commands : CommandOK(d)'
  BY <1>1, <1>2, EntriesKept
<1>4. \A p \in Operators \ {o} : opc'[p] = opc[p]
  BY DlqParts DEF Operate, ReplayStep, ReplayReset, ReplayMark, ReplaySend, ReplayWrite,
     PersistAction, ReplayCheck, Resolve, GoTo
<1>5. ASSUME NEW p \in Operators PROVE OperatorOK(p)'
  <2>1. CASE p = o
    <3>1. ocmd'[o] = c
      BY <1>2, DlqParts
    <3>2. QED
      BY <1>1, <1>2, <2>1, <3>1 DEF OperatorOK, Exhausted
  <2>2. CASE p # o
    <3>1. opc'[p] = opc[p] /\ ocmd'[p] = ocmd[p]
      BY <1>2, <1>4, <2>2, DlqParts
    <3>2. OperatorOK(p)
      BY DEF RunInv
    <3>3. QED
      BY <1>1, <3>1, <3>2 DEF OperatorOK, Exhausted
  <2>3. QED
    BY <2>1, <2>2
<1>6. QED
  BY <1>1, <1>3, <1>5, Quiet

LEMMA NextRuns == TInv /\ RunInv /\ [Next]_vars => RunInv'
<1> SUFFICES ASSUME TInv, RunInv, [Next]_vars PROVE RunInv'
  OBVIOUS
<1>1. CASE Crash
  BY <1>1, CrashRuns
<1>2. CASE Attach \/ Consumer
  BY <1>2, ConsumerRuns
<1>3. ASSUME NEW c \in Commands, Dispatch(c) PROVE RunInv'
  BY <1>3, DispatchRuns
<1>4. ASSUME NEW w \in Workers, Work(w) PROVE RunInv'
  BY <1>4, TakeRuns, EmitActionsRuns, ExecuteRuns, ReportRuns, DeadLetterRuns DEF Work
<1>5. ASSUME NEW o \in Operators, Operate(o) PROVE RunInv'
  BY <1>5, OperateRuns
<1>6. CASE UNCHANGED vars
  BY <1>6 DEF vars, worldVars, workVars, dlqVars, RunInv, CommandOK, Reported, Exhausted,
     WorkerOK, RunOK, OwnRuns, OperatorOK
<1>7. QED
  BY <1>1, <1>2, <1>3, <1>4, <1>5, <1>6 DEF Next

(* What the store, the workers and the operators know of each command's run *)
(* holds in every behaviour.                                                *)
THEOREM RunsInductive == Spec => [](TInv /\ RunInv)
<1>1. QED
  BY InitTInv, NextTInv, InitRuns, NextRuns, PTL DEF Spec

(* SingleRun: whatever is queued twice, redelivered, replayed or lost, the  *)
(* vehicle gets a command from one run only, within MaxAttempts.            *)
THEOREM SingleRunHolds == Spec => []SingleRun
<1>1. RunInv => SingleRun
  BY DEF RunInv, CommandOK, OwnRuns, SingleRun
<1>2. QED
  BY <1>1, RunsInductive, PTL

(* A TIMEOUT is never the outcome of a rejected command: that needs to know *)
(* of a run that failed how it did.                                         *)
TimeoutsOK ==
    /\ \A c \in Commands : "TIMEOUT" \in durable[c] => c \notin rejected
    /\ \A w \in Workers : wpc[w] = "fail" /\ failure[w] = "TIMEOUT" => wcmd[w] \notin rejected

LEMMA ExecuteTimeouts ==
    ASSUME TInv, RunInv, TimeoutsOK, NEW w \in Workers, Execute(w) PROVE TimeoutsOK'
<1> DEFINE c == wcmd[w]
<1>1. wpc[w] = "attempt" /\ c \in Commands /\ WorkerOK(w) /\ CommandOK(c)
  BY ExecuteParts, WorkerParts DEF RunInv
<1>2. c \notin applied /\ c \notin rejected /\ attempts[c] # MaxAttempts
  BY <1>1, RunParts, WorkerParts DEF WorkerOK, RunOK
<1>3. "TIMEOUT" \notin durable[c]
  BY <1>1, <1>2 DEF CommandOK, Reported, Exhausted
<1>4. /\ UNCHANGED <<durable, wcmd>>
      /\ rejected' = rejected \/ rejected' = rejected \union {c}
  BY ExecuteParts
<1>5. \A d \in Commands : "TIMEOUT" \in durable'[d] => d \notin rejected'
  BY <1>3, <1>4 DEF TimeoutsOK
<1>6. ASSUME NEW v \in Workers, wpc'[v] = "fail" /\ failure'[v] = "TIMEOUT"
      PROVE  wcmd'[v] \notin rejected'
  <2>1. CASE v = w
    <3>1. rejected' = rejected \/ failure'[w] = "FAILED"
      BY ExecuteParts, WorkerParts
    <3>2. QED
      BY <1>2, <1>4, <1>6, <2>1, <3>1
  <2>2. CASE v # w
    <3>1. wpc[v] = "fail" /\ failure[v] = "TIMEOUT"
      BY <1>6, <2>2, ExecuteParts, WorkerParts
    <3>2. wcmd[v] # c
      BY <1>1, <2>2, <3>1 DEF RunInv, OwnRuns, RunPcs
    <3>3. QED
      BY <1>4, <3>1, <3>2 DEF TimeoutsOK
  <2>3. QED
    BY <2>1, <2>2
<1>7. QED
  BY <1>5, <1>6 DEF TimeoutsOK

(* Any other step of the path: no rejection, and TIMEOUT is stored only by a *)
(* worker that failed with it.                                               *)
LEMMA OtherTimeouts ==
    ASSUME TimeoutsOK, rejected' = rejected,
           \A c \in Commands : "TIMEOUT" \in durable'[c] =>
               \/ "TIMEOUT" \in durable[c]
               \/ \E w \in Workers : wpc[w] = "fail" /\ failure[w] = "TIMEOUT" /\ wcmd[w] = c,
           \A w \in Workers : wpc'[w] = "fail" =>
               wpc[w] = "fail" /\ failure'[w] = failure[w] /\ wcmd'[w] = wcmd[w]
    PROVE  TimeoutsOK'
BY DEF TimeoutsOK

LEMMA EmitTimeouts ==
    ASSUME TInv, TimeoutsOK, NEW w \in Workers,
           \/ EmitQueued(w) \/ EmitSent(w) \/ EmitAck(w) \/ EmitExecuting(w) \/ EmitCompleted(w)
           \/ EmitRetry(w) \/ EmitTelemetry(w) \/ EmitFailure(w)
    PROVE  TimeoutsOK'
<1>1. wcmd[w] \in Commands /\ failure[w] \in {"FAILED", "TIMEOUT"}
  BY WorkerParts
     DEF EmitQueued, EmitSent, EmitAck, EmitExecuting, EmitCompleted, EmitOrGiveUp,
         EmitRetry, EmitTelemetry, EmitFailure
<1>2. UNCHANGED <<rejected, wcmd, failure>>
  BY DEF EmitQueued, EmitSent, EmitAck, EmitExecuting, EmitCompleted, EmitOrGiveUp,
         EmitRetry, EmitTelemetry, EmitFailure
<1>3. PICK tag \in Tags :
          /\ Accepted(wcmd[w], tag) \/ Refused(wcmd[w], tag)
          /\ tag = "TIMEOUT" => wpc[w] = "fail" /\ failure[w] = "TIMEOUT"
  <2>1. {"QUEUED", "SENT", "RETRY", "ACK", "EXECUTING", "COMPLETED", "FAILED", "TIMEOUT",
         "TELEMETRY"} \subseteq Tags
    BY DEF Tags
  <2>2. CASE EmitQueued(w) \/ EmitSent(w) \/ EmitAck(w) \/ EmitExecuting(w) \/ EmitCompleted(w)
    BY <2>1, <2>2 DEF EmitQueued, EmitSent, EmitAck, EmitExecuting, EmitCompleted, EmitOrGiveUp
  <2>3. CASE EmitRetry(w) \/ EmitTelemetry(w) \/ EmitFailure(w)
    BY <1>1, <2>1, <2>3 DEF EmitRetry, EmitTelemetry, EmitFailure
  <2>4. QED
    BY <2>2, <2>3
<1>4. PICK pc : wpc' = [wpc EXCEPT ![w] = pc] /\ pc # "fail"
  BY DEF EmitQueued, EmitSent, EmitAck, EmitExecuting, EmitCompleted, EmitOrGiveUp,
         EmitRetry, EmitTelemetry, EmitFailure, Finish
<1>5. \A c \in Commands : "TIMEOUT" \in durable'[c] =>
          "TIMEOUT" \in durable[c] \/ (c = wcmd[w] /\ tag = "TIMEOUT")
  BY <1>1, <1>3, IngestAdds
<1>6. \A v \in Workers : wpc'[v] = "fail" => wpc[v] = "fail"
  BY <1>4, WorkerParts
<1>7. QED
  BY <1>2, <1>3, <1>5, <1>6, OtherTimeouts

LEMMA NextTimeouts == TInv /\ RunInv /\ TimeoutsOK /\ [Next]_vars => TimeoutsOK'
<1> SUFFICES ASSUME TInv, RunInv, TimeoutsOK, [Next]_vars PROVE TimeoutsOK'
  OBVIOUS
<1>1. CASE /\ UNCHANGED <<durable, rejected>>
           /\ \A w \in Workers : wpc'[w] = "fail" =>
                 wpc[w] = "fail" /\ failure'[w] = failure[w] /\ wcmd'[w] = wcmd[w]
  BY <1>1, OtherTimeouts
<1>2. CASE Crash
  BY <1>1, <1>2 DEF Crash
<1>3. CASE Attach \/ Consumer \/ UNCHANGED vars
  BY <1>1, <1>3 DEF Attach, Consumer, Consume, ConsumerMark, ConsumerSend, ConsumerCommit,
     vars, worldVars, workVars
<1>4. ASSUME NEW c \in Commands, Dispatch(c) PROVE TimeoutsOK'
  <2>1. \A d \in Commands : \A t \in durable'[d] : t \in durable[d] \/ t = "RECEIVED"
    BY <1>4, IngestAdds DEF Dispatch, Tags
  <2>2. UNCHANGED <<rejected, wpc, failure, wcmd>>
    BY <1>4 DEF Dispatch, workVars
  <2>3. QED
    BY <2>1, <2>2, OtherTimeouts
<1>5. ASSUME NEW w \in Workers, Work(w) PROVE TimeoutsOK'
  <2>1. CASE Take(w) \/ Enqueue(w) \/ PersistEnqueued(w)
    <3>1. UNCHANGED <<durable, rejected, failure>>
      BY <2>1 DEF Take, Enqueue, PersistEnqueued, worldVars
    <3>2. \A v \in Workers : wpc'[v] = "fail" => wpc[v] = "fail" /\ wcmd'[v] = wcmd[v]
      BY <2>1, WorkerParts DEF Take, Enqueue, PersistEnqueued
    <3>3. QED
      BY <1>1, <3>1, <3>2
  <2>2. QED
    BY <1>5, <2>1, ExecuteTimeouts, EmitTimeouts DEF Work
<1>6. ASSUME NEW o \in Operators, Operate(o) PROVE TimeoutsOK'
  <2>1. UNCHANGED <<durable, rejected, wpc, failure, wcmd>>
    BY <1>6 DEF Operate, ReplayStep, ReplayReset, ReplayMark, ReplaySend, ReplayWrite,
       PersistAction, ReplayCheck, Resolve, worldVars, workVars
  <2>2. QED
    BY <1>1, <2>1
<1>7. QED
  BY <1>2, <1>3, <1>4, <1>5, <1>6 DEF Next

(* OutcomeMatchesVehicle: a COMPLETED record means an APPLIED answer; a      *)
(* FAILED, TIMEOUT or dead-letter record means none, and a refusal or       *)
(* MaxAttempts requests; a TIMEOUT record means no refusal.                  *)
THEOREM OutcomeHolds == Spec => []OutcomeMatchesVehicle
<1>1. Init => TimeoutsOK
  BY DEF Init, TimeoutsOK
<1>2. Spec => []TimeoutsOK
  BY <1>1, NextTimeouts, RunsInductive, PTL DEF Spec
<1>3. RunInv /\ TimeoutsOK => OutcomeMatchesVehicle
  BY DEF RunInv, CommandOK, Reported, Exhausted, TimeoutsOK, OutcomeMatchesVehicle
<1>4. QED
  BY <1>2, <1>3, RunsInductive, PTL

-----------------------------------------------------------------------------
(* CommandPipeline implements CommandOutcome: a step of the path changes    *)
(* the phase of at most one command, and only as promised.  Beside RunInv   *)
(* the proof needs the order of a command's records: nothing of the path is *)
(* stored, on its way, queued or run before RECEIVED is stored, and the     *)
(* vehicle is not asked before SENT is.                                     *)

Received(c) == "RECEIVED" \in durable[c]

RecordsKnown == \A c \in Commands : durable[c] # {} => Received(c)
LogKnown     == \A p \in Partitions : \A i \in 1 .. Len(log[p]) : Received(log[p][i].cmd)
QueueKnown   == \A i \in 1 .. Len(queue) : Received(queue[i])
WorkersKnown == \A w \in Workers : wpc[w] # "idle" => Received(wcmd[w])

SentFirst ==
    \A w \in Workers : wpc[w] \in RunPcs \ {"sent"} => "SENT" \in durable[wcmd[w]]

OrderInv == RecordsKnown /\ LogKnown /\ QueueKnown /\ WorkersKnown /\ SentFirst

-----------------------------------------------------------------------------
LEMMA LogTyped ==
    ASSUME TInv, NEW p \in Partitions
    PROVE  /\ log \in [Partitions -> Seq(Messages)] /\ log[p] \in Seq(Messages)
           /\ \A i \in 1 .. Len(log[p]) : log[p][i] \in Messages /\ log[p][i].cmd \in Commands
<1>1. log[p] \in Seq(Messages) /\ log \in [Partitions -> Seq(Messages)]
  BY DEF TInv, TypeOK, KafkaTypeOK
<1>2. \A i \in 1 .. Len(log[p]) : log[p][i] \in Messages
  BY <1>1
<1>3. QED
  BY <1>1, <1>2 DEF Messages

(* Records and messages that are known stay so as the store grows. *)
LEMMA LogPublished ==
    ASSUME TInv, LogKnown, NEW p \in Partitions, NEW m \in Messages, Publish(p, m),
           \A d \in Commands : durable[d] \subseteq durable'[d], "RECEIVED" \in durable'[m.cmd]
    PROVE  LogKnown'
<1> SUFFICES ASSUME NEW q \in Partitions, NEW i \in 1 .. Len(log'[q])
             PROVE  "RECEIVED" \in durable'[log'[q][i].cmd]
  BY DEF LogKnown, Received
<1>1. /\ log \in [Partitions -> Seq(Messages)] /\ log[q] \in Seq(Messages)
      /\ \A j \in 1 .. Len(log[q]) : "RECEIVED" \in durable'[log[q][j].cmd]
  BY LogTyped DEF LogKnown, Received
<1>2. CASE log'[q] = log[q]
  BY <1>1, <1>2
<1>3. CASE log'[q] = Append(log[q], m)
  <2>1. (i \in 1 .. Len(log[q]) /\ log'[q][i] = log[q][i]) \/ log'[q][i] = m
    BY <1>1, <1>3
  <2>2. QED
    BY <1>1, <2>1
<1>4. CASE log'[q] = log[q] \o <<m, m>>
  <2>1. (i \in 1 .. Len(log[q]) /\ log'[q][i] = log[q][i]) \/ log'[q][i] = m
    BY <1>1, <1>4
  <2>2. QED
    BY <1>1, <2>1
<1>5. QED
  BY <1>1, <1>2, <1>3, <1>4 DEF Publish

LEMMA LogConsumed ==
    ASSUME TInv, LogKnown, NEW p \in Partitions, log[p] # <<>>,
           log' = [log EXCEPT ![p] = Tail(@)], UNCHANGED durable
    PROVE  LogKnown'
<1> SUFFICES ASSUME NEW q \in Partitions, NEW i \in 1 .. Len(log'[q])
             PROVE  "RECEIVED" \in durable[log'[q][i].cmd]
  BY DEF LogKnown, Received
<1>1. /\ log \in [Partitions -> Seq(Messages)] /\ log[q] \in Seq(Messages)
      /\ \A j \in 1 .. Len(log[q]) : "RECEIVED" \in durable[log[q][j].cmd]
  BY LogTyped DEF LogKnown, Received
<1>2. CASE q # p
  BY <1>1, <1>2
<1>3. CASE q = p
  <2>1. log'[q] = Tail(log[q])
    BY <1>1, <1>3
  <2>2. i + 1 \in 1 .. Len(log[q]) /\ log'[q][i] = log[q][i + 1]
    BY <1>1, <1>3, <2>1
  <2>3. QED
    BY <1>1, <2>2
<1>4. QED
  BY <1>2, <1>3

LEMMA IngestKnown ==
    ASSUME TInv, RecordsKnown, LogKnown, NEW c \in Commands, NEW tag \in Tags,
           Accepted(c, tag) \/ Refused(c, tag), Received(c) \/ tag = "RECEIVED"
    PROVE  RecordsKnown' /\ LogKnown'
<1>1. \A d \in Commands :
          /\ durable[d] \subseteq durable'[d]
          /\ \A t \in durable'[d] : t \in durable[d] \/ (d = c /\ t = tag)
  BY IngestAdds
<1>2. RecordsKnown'
  BY <1>1 DEF RecordsKnown, Received
<1>3. CASE Accepted(c, tag)
  <2>1. Message(c, tag) \in Messages /\ Message(c, tag).cmd = c /\ Partition(tag) \in Partitions
    BY MessageTyped, PartitionTyped DEF Message
  <2>2. tag \in durable'[c]
    BY <1>3, RunParts DEF Accepted
  <2>3. "RECEIVED" \in durable'[c]
    BY <1>1, <2>2 DEF Received
  <2>4. Publish(Partition(tag), Message(c, tag))
    BY <1>3 DEF Accepted
  <2>5. LogKnown'
    BY <1>1, <2>1, <2>3, <2>4, LogPublished
  <2>6. QED
    BY <1>2, <2>5
<1>4. CASE Refused(c, tag)
  BY <1>1, <1>2, <1>4, LogTyped DEF Refused, LogKnown, Received
<1>5. QED
  BY <1>3, <1>4

LEMMA PersistKnown ==
    ASSUME TInv, LogKnown, NEW c \in Commands, NEW e \in Entries, PersistEntry(c, e),
           UNCHANGED durable, Received(c)
    PROVE  LogKnown'
<1>1. CASE UNCHANGED log
  BY <1>1 DEF LogKnown, Received
<1>2. CASE Publish("ground", [cmd |-> c, kind |-> "event", state |-> e.exec])
  <2>1. /\ "ground" \in Partitions
        /\ [cmd |-> c, kind |-> "event", state |-> e.exec] \in Messages
    BY DEF Partitions, Messages, Entries, Lifecycles, ExecutionStates, Terminal
  <2>2. QED
    BY <1>2, <2>1, LogPublished DEF Received
<1>3. QED
  BY <1>1, <1>2 DEF PersistEntry

LEMMA SendKnown ==
    ASSUME TInv, QueueKnown, NEW c \in Commands, Send(c), UNCHANGED durable, Received(c)
    PROVE  QueueKnown'
<1>1. queue \in Seq(Commands)
  BY DEF TInv, TypeOK, SubmitTypeOK
<1>2. CASE queue' = queue
  BY <1>2 DEF QueueKnown, Received
<1>3. CASE queue' = Append(queue, c)
  <2>1. \A i \in 1 .. Len(queue') :
            (i \in 1 .. Len(queue) /\ queue'[i] = queue[i]) \/ queue'[i] = c
    BY <1>1, <1>3
  <2>2. QED
    BY <2>1 DEF QueueKnown, Received
<1>4. QED
  BY <1>2, <1>3 DEF Send

-----------------------------------------------------------------------------
LEMMA InitOrder == Init => OrderInv
<1> SUFFICES ASSUME Init PROVE OrderInv
  OBVIOUS
<1>1. RecordsKnown /\ LogKnown /\ QueueKnown
  <2>1. RecordsKnown
    BY DEF Init, RecordsKnown
  <2>2. queue = <<>> /\ \A p \in Partitions : log[p] = <<>>
    BY DEF Init
  <2>3. 1 .. Len(<<>>) = {}
    OBVIOUS
  <2>4. QED
    BY <2>1, <2>2, <2>3 DEF LogKnown, QueueKnown
<1>2. WorkersKnown /\ SentFirst
  BY DEF Init, WorkersKnown, SentFirst, RunPcs
<1>3. QED
  BY <1>1, <1>2 DEF OrderInv

(* The parts about the store, for a step that does not change it. *)
LEMMA StoreSame ==
    ASSUME OrderInv, UNCHANGED durable
    PROVE  /\ RecordsKnown'
           /\ UNCHANGED log => LogKnown'
           /\ UNCHANGED queue => QueueKnown'
           /\ UNCHANGED <<wpc, wcmd>> => WorkersKnown' /\ SentFirst'
BY DEF OrderInv, RecordsKnown, LogKnown, QueueKnown, WorkersKnown, SentFirst, Received

LEMMA GrowsKeeps ==
    ASSUME TInv, OrderInv, \A d \in Commands : durable[d] \subseteq durable'[d]
    PROVE  /\ UNCHANGED queue => QueueKnown'
           /\ UNCHANGED <<wpc, wcmd>> => WorkersKnown' /\ SentFirst'
<1>1. queue \in Seq(Commands)
  BY DEF TInv, TypeOK, SubmitTypeOK
<1>2. \A i \in 1 .. Len(queue) : queue[i] \in Commands
  BY <1>1
<1>3. UNCHANGED queue => QueueKnown'
  BY <1>2 DEF OrderInv, QueueKnown, Received
<1>4. UNCHANGED <<wpc, wcmd>> => WorkersKnown'
  BY WorkerParts DEF OrderInv, WorkersKnown, Received
<1>5. UNCHANGED <<wpc, wcmd>> => SentFirst'
  BY WorkerParts DEF OrderInv, SentFirst, RunPcs
<1>6. QED
  BY <1>3, <1>4, <1>5

LEMMA CrashOrder == ASSUME TInv, OrderInv, Crash PROVE OrderInv'
<1>1. UNCHANGED <<durable, log>> /\ queue' = <<>> /\ \A w \in Workers : wpc'[w] = "idle"
  BY DEF Crash
<1>2. RecordsKnown' /\ LogKnown'
  BY <1>1, StoreSame
<1>3. QueueKnown' /\ WorkersKnown' /\ SentFirst'
  BY <1>1 DEF QueueKnown, WorkersKnown, SentFirst, RunPcs
<1>4. QED
  BY <1>2, <1>3 DEF OrderInv

LEMMA ConsumerOrder == ASSUME TInv, OrderInv, Attach \/ Consumer PROVE OrderInv'
<1>1. UNCHANGED <<durable, wpc, wcmd>>
  BY DEF Attach, Consumer, Consume, ConsumerMark, ConsumerSend, ConsumerCommit, worldVars, workVars
<1>2. RecordsKnown' /\ WorkersKnown' /\ SentFirst'
  BY <1>1, StoreSame
<1>3. rpart \in Partitions /\ (reading # "fetch" => log[rpart] # <<>>)
  BY DEF TInv, TypeOK, ReadTypeOK, ReadingOK
<1>4. LogKnown'
  <2>1. CASE UNCHANGED log
    BY <1>1, <2>1, StoreSame
  <2>2. ASSUME NEW p \in Partitions, log[p] # <<>>, log' = [log EXCEPT ![p] = Tail(@)]
        PROVE  LogKnown'
    BY <1>1, <2>2, LogConsumed DEF OrderInv
  <2>3. QED
    BY <1>3, <2>1, <2>2 DEF Attach, Consumer, Consume, ConsumerMark, ConsumerSend, ConsumerCommit
<1>5. QueueKnown'
  <2>1. CASE UNCHANGED queue
    BY <1>1, <2>1, StoreSame
  <2>2. CASE ConsumerSend
    <3>1. reading # "fetch" /\ Next1(rpart).cmd \in Commands
      BY <1>3, <2>2, NextMessageTyped DEF ConsumerSend
    <3>2. log[rpart] \in Seq(Messages) /\ log[rpart] # <<>>
      BY <1>3, <3>1, LogTyped
    <3>3. Next1(rpart) = log[rpart][1] /\ 1 \in 1 .. Len(log[rpart])
      BY <3>2 DEF Next1
    <3>4. Received(Next1(rpart).cmd)
      BY <1>3, <3>3 DEF OrderInv, LogKnown
    <3>5. QED
      BY <1>1, <2>2, <3>1, <3>4, SendKnown DEF OrderInv, ConsumerSend
  <2>3. QED
    BY <2>1, <2>2 DEF Attach, Consumer, Consume, ConsumerMark, ConsumerCommit, submitVars
<1>6. QED
  BY <1>2, <1>4, <1>5 DEF OrderInv

LEMMA DispatchOrder == ASSUME TInv, OrderInv, NEW c \in Commands, Dispatch(c) PROVE OrderInv'
<1>1. "RECEIVED" \in Tags /\ UNCHANGED <<queue, wpc, wcmd>>
  BY DEF Dispatch, Tags, submitVars, workVars
<1>2. Accepted(c, "RECEIVED") \/ Refused(c, "RECEIVED")
  BY DEF Dispatch
<1>3. RecordsKnown' /\ LogKnown'
  BY <1>1, <1>2, IngestKnown DEF OrderInv
<1>4. \A d \in Commands : durable[d] \subseteq durable'[d]
  BY <1>1, <1>2, IngestAdds
<1>5. QueueKnown' /\ WorkersKnown' /\ SentFirst'
  BY <1>1, <1>4, GrowsKeeps
<1>6. QED
  BY <1>3, <1>5 DEF OrderInv

LEMMA TakeOrder == ASSUME TInv, OrderInv, NEW w \in Workers, Take(w) PROVE OrderInv'
<1>1. UNCHANGED <<durable, log>>
  BY DEF Take, worldVars
<1>2. queue \in Seq(Commands) /\ queue # <<>> /\ queue' = Tail(queue)
  BY DEF TInv, TypeOK, SubmitTypeOK, Take
<1>3. QueueKnown'
  <2>1. \A i \in 1 .. Len(queue') : i + 1 \in 1 .. Len(queue) /\ queue'[i] = queue[i + 1]
    BY <1>2
  <2>2. QED
    BY <1>1, <2>1 DEF OrderInv, QueueKnown, Received
<1>4. Received(Head(queue))
  <2>1. Head(queue) = queue[1] /\ 1 \in 1 .. Len(queue)
    BY <1>2
  <2>2. QED
    BY <2>1 DEF OrderInv, QueueKnown
<1>5. WorkersKnown' /\ SentFirst'
  <2>1. /\ wpc' = [wpc EXCEPT ![w] = "queued"] /\ wcmd' = [wcmd EXCEPT ![w] = Head(queue)]
        /\ "queued" \notin RunPcs
    BY DEF Take, RunPcs
  <2>2. WorkersKnown'
    BY <1>1, <1>4, <2>1, WorkerParts DEF OrderInv, WorkersKnown, Received
  <2>3. SentFirst'
    BY <1>1, <2>1, WorkerParts DEF OrderInv, SentFirst
  <2>4. QED
    BY <2>2, <2>3
<1>6. QED
  BY <1>1, <1>3, <1>5, StoreSame DEF OrderInv

(* A worker that moves on, after SENT unless it goes to "sent" or out of the run. *)
LEMMA WorkerMovesOrder ==
    ASSUME TInv, OrderInv, NEW w \in Workers, wpc[w] # "idle", NEW pc,
           wpc' = [wpc EXCEPT ![w] = pc], UNCHANGED wcmd,
           \A d \in Commands : durable[d] \subseteq durable'[d],
           pc \in RunPcs \ {"sent"} => wpc[w] \in RunPcs \ {"sent"} \/ "SENT" \in durable'[wcmd[w]]
    PROVE  WorkersKnown' /\ SentFirst'
<1>1. WorkersKnown'
  BY WorkerParts DEF OrderInv, WorkersKnown, Received
<1>2. ASSUME NEW v \in Workers, wpc'[v] \in RunPcs \ {"sent"} PROVE "SENT" \in durable'[wcmd'[v]]
  <2>1. CASE v = w
    BY <1>2, <2>1, WorkerParts DEF OrderInv, SentFirst
  <2>2. CASE v # w
    <3>1. wpc[v] \in RunPcs \ {"sent"} /\ wcmd[v] \in Commands
      BY <1>2, <2>2, WorkerParts DEF RunPcs
    <3>2. QED
      BY <3>1 DEF OrderInv, SentFirst
  <2>3. QED
    BY <2>1, <2>2
<1>3. QED
  BY <1>1, <1>2 DEF SentFirst

(* The actions of a worker that put a record through Ingest. *)
LEMMA WorkerEmits ==
    ASSUME TInv, OrderInv, NEW w \in Workers, wpc[w] # "idle", NEW tag \in Tags, NEW pc,
           Accepted(wcmd[w], tag) \/ Refused(wcmd[w], tag),
           wpc' = [wpc EXCEPT ![w] = pc], UNCHANGED <<queue, wcmd>>,
           pc \in RunPcs \ {"sent"} =>
               wpc[w] \in RunPcs \ {"sent"} \/ (tag = "SENT" /\ Accepted(wcmd[w], tag))
    PROVE  OrderInv'
<1>1. wcmd[w] \in Commands /\ Received(wcmd[w])
  BY WorkerParts DEF OrderInv, WorkersKnown
<1>2. RecordsKnown' /\ LogKnown'
  BY <1>1, IngestKnown DEF OrderInv
<1>3. \A d \in Commands : durable[d] \subseteq durable'[d]
  BY <1>1, IngestAdds
<1>4. QueueKnown'
  BY <1>3, GrowsKeeps
<1>5. Accepted(wcmd[w], tag) => tag \in durable'[wcmd[w]]
  BY <1>1, RunParts DEF Accepted
<1>6. WorkersKnown' /\ SentFirst'
  BY <1>3, <1>5, WorkerMovesOrder
<1>7. QED
  BY <1>2, <1>4, <1>6 DEF OrderInv

LEMMA EmitOrder ==
    ASSUME TInv, OrderInv, NEW w \in Workers,
           \/ EmitQueued(w) \/ EmitSent(w) \/ EmitAck(w) \/ EmitExecuting(w) \/ EmitCompleted(w)
           \/ EmitRetry(w) \/ EmitTelemetry(w) \/ EmitFailure(w)
    PROVE  OrderInv'
<1>1. /\ Tags = {"RECEIVED", "QUEUED", "SENT", "RETRY", "ACK", "EXECUTING", "COMPLETED",
                 "FAILED", "TIMEOUT", "TELEMETRY"}
      /\ RunPcs = {"sent", "attempt", "retry", "ack", "executing", "completed", "telemetry", "fail"}
      /\ wpc[w] # "idle" /\ failure[w] \in {"FAILED", "TIMEOUT"}
  BY WorkerParts
     DEF Tags, RunPcs, EmitQueued, EmitSent, EmitAck, EmitExecuting, EmitCompleted, EmitOrGiveUp,
         EmitRetry, EmitTelemetry, EmitFailure
<1>2. UNCHANGED <<queue, wcmd>>
  BY DEF EmitQueued, EmitSent, EmitAck, EmitExecuting, EmitCompleted, EmitOrGiveUp,
         EmitRetry, EmitTelemetry, EmitFailure, Finish, submitVars
<1>3. ASSUME NEW pc, NEW tag \in Tags, NEW next, EmitOrGiveUp(w, pc, tag, next),
             next \in RunPcs \ {"sent"} => pc \in RunPcs \ {"sent"} \/ tag = "SENT"
      PROVE  OrderInv'
  <2>1. wpc[w] = pc
    BY <1>3 DEF EmitOrGiveUp
  <2>2. CASE Accepted(wcmd[w], tag) /\ wpc' = [wpc EXCEPT ![w] = next]
    BY <1>1, <1>2, <1>3, <2>1, <2>2, WorkerEmits
  <2>3. CASE Refused(wcmd[w], tag) /\ Finish(w, "FAILED", "idle")
    <3>1. wpc' = [wpc EXCEPT ![w] = "idle"]
      BY <2>3 DEF Finish
    <3>2. QED
      BY <1>1, <1>2, <1>3, <2>1, <2>3, <3>1, WorkerEmits
  <2>4. QED
    BY <1>3, <2>2, <2>3 DEF EmitOrGiveUp
<1>4. CASE EmitQueued(w) \/ EmitSent(w)
  BY <1>1, <1>3, <1>4 DEF EmitQueued, EmitSent
<1>5. CASE EmitAck(w) \/ EmitExecuting(w) \/ EmitCompleted(w)
  BY <1>1, <1>3, <1>5 DEF EmitAck, EmitExecuting, EmitCompleted
<1>6. CASE EmitRetry(w)
  BY <1>1, <1>2, <1>6, WorkerEmits DEF EmitRetry
<1>7. CASE EmitTelemetry(w)
  <2>1. wpc' = [wpc EXCEPT ![w] = "idle"]
    BY <1>7 DEF EmitTelemetry, Finish
  <2>2. QED
    BY <1>1, <1>2, <1>7, <2>1, WorkerEmits DEF EmitTelemetry
<1>8. CASE EmitFailure(w)
  <2>1. wpc' = [wpc EXCEPT ![w] = "enqueue"]
    BY <1>8 DEF EmitFailure, Finish
  <2>2. QED
    BY <1>1, <1>2, <1>8, <2>1, WorkerEmits DEF EmitFailure
<1>9. QED
  BY <1>4, <1>5, <1>6, <1>7, <1>8

LEMMA RestOrder ==
    ASSUME TInv, OrderInv, NEW w \in Workers, Execute(w) \/ Enqueue(w) \/ PersistEnqueued(w)
    PROVE  OrderInv'
<1>1. /\ UNCHANGED <<durable, queue, wcmd>> /\ wpc[w] # "idle" /\ wcmd[w] \in Commands
      /\ \A d \in Commands : durable[d] \subseteq durable'[d]
  BY ExecuteParts, WorkerParts DEF Enqueue, PersistEnqueued, worldVars, submitVars
<1>2. Received(wcmd[w])
  BY <1>1 DEF OrderInv, WorkersKnown
<1>3. LogKnown'
  <2>1. CASE UNCHANGED log
    BY <1>1, <2>1, StoreSame
  <2>2. CASE PersistEnqueued(w)
    <3>1. [state |-> "PENDING", exec |-> failure[w]] \in Entries
      BY WorkerParts, EntryTyped
    <3>2. QED
      BY <1>1, <1>2, <2>2, <3>1, PersistKnown DEF OrderInv, PersistEnqueued
  <2>3. QED
    BY <2>1, <2>2, ExecuteParts DEF Enqueue
<1>4. WorkersKnown' /\ SentFirst'
  <2>1. PICK pc : /\ wpc' = [wpc EXCEPT ![w] = pc]
                  /\ pc \in RunPcs => wpc[w] \in RunPcs \ {"sent"}
    BY ExecuteParts DEF Enqueue, PersistEnqueued, RunPcs
  <2>2. QED
    BY <1>1, <2>1, WorkerMovesOrder
<1>5. QED
  BY <1>1, <1>3, <1>4, StoreSame DEF OrderInv

(* An operator's command is exhausted, so it has a QUEUED record. *)
LEMMA OperateOrder ==
    ASSUME TInv, RunInv, OrderInv, NEW o \in Operators, Operate(o) PROVE OrderInv'
<1>1. UNCHANGED <<durable, wpc, wcmd>>
  BY DEF Operate, ReplayStep, ReplayReset, ReplayMark, ReplaySend, ReplayWrite,
     PersistAction, ReplayCheck, Resolve, worldVars, workVars
<1>2. opc[o] # "idle" => ocmd[o] \in Commands /\ Received(ocmd[o])
  BY DlqParts DEF RunInv, OperatorOK, Exhausted, OrderInv, RecordsKnown
<1>3. CASE PersistAction(o)
  <2>1. opc[o] # "idle"
    BY <1>3 DEF PersistAction
  <2>2. dlq[ocmd[o]].exec \in {"", "FAILED", "TIMEOUT"}
    BY <1>2, <2>1, DlqParts DEF Entries
  <2>3. LogKnown'
    BY <1>1, <1>2, <1>3, <2>1, <2>2, EntryTyped, PersistKnown DEF OrderInv, PersistAction
  <2>4. QED
    BY <1>1, <1>3, <2>3, StoreSame DEF OrderInv, PersistAction, submitVars
<1>4. CASE ReplaySend(o)
  <2>1. QueueKnown'
    BY <1>1, <1>2, <1>4, SendKnown DEF OrderInv, ReplaySend
  <2>2. QED
    BY <1>1, <1>4, <2>1, StoreSame DEF OrderInv, ReplaySend
<1>5. CASE UNCHANGED <<log, queue>>
  BY <1>1, <1>5, StoreSame DEF OrderInv
<1>6. QED
  BY <1>3, <1>4, <1>5
     DEF Operate, ReplayStep, ReplayReset, ReplayMark, ReplayWrite, ReplayCheck, Resolve, submitVars

LEMMA NextOrder == TInv /\ RunInv /\ OrderInv /\ [Next]_vars => OrderInv'
<1> SUFFICES ASSUME TInv, RunInv, OrderInv, [Next]_vars PROVE OrderInv'
  OBVIOUS
<1>1. CASE Crash
  BY <1>1, CrashOrder
<1>2. CASE Attach \/ Consumer
  BY <1>2, ConsumerOrder
<1>3. ASSUME NEW c \in Commands, Dispatch(c) PROVE OrderInv'
  BY <1>3, DispatchOrder
<1>4. ASSUME NEW w \in Workers, Work(w) PROVE OrderInv'
  BY <1>4, TakeOrder, EmitOrder, RestOrder DEF Work
<1>5. ASSUME NEW o \in Operators, Operate(o) PROVE OrderInv'
  BY <1>5, OperateOrder
<1>6. CASE UNCHANGED vars
  BY <1>6, StoreSame DEF vars, worldVars, submitVars, workVars, OrderInv
<1>7. QED
  BY <1>1, <1>2, <1>3, <1>4, <1>5, <1>6 DEF Next

-----------------------------------------------------------------------------
(* The mapping: steps that store nothing and ask the vehicle nothing stutter. *)
PhaseStep(c) ==
    \/ Phase(c)' = Phase(c)
    \/ Phase(c) = "new" /\ Phase(c)' = "accepted"
    \/ Phase(c) = "accepted" /\ Phase(c)' = "running"
    \/ Phase(c) = "running" /\ Phase(c)' = "completed" /\ c \in applied
    \/ /\ Phase(c) = "running" /\ Phase(c)' = "failed"
       /\ c \notin applied /\ (attempts[c] = MaxAttempts \/ c \in rejected)

LEMMA PhaseMoves ==
    ASSUME NEW c \in Commands, PhaseStep(c), UNCHANGED <<attempts, applied, rejected>>,
           \A d \in Commands \ {c} : durable'[d] = durable[d]
    PROVE  [Outcome!Next]_(Outcome!vars)
<1> DEFINE phase == [d \in Commands |-> Phase(d)]
<1>1. \A d \in Commands \ {c} : Phase(d)' = Phase(d)
  BY DEF Phase
<1>2. phase' = [phase EXCEPT ![c] = Phase(c)'] /\ phase[c] = Phase(c)
  BY <1>1
<1>3. CASE Phase(c)' = Phase(c)
  <2>1. phase' = phase
    BY <1>1, <1>3
  <2>2. QED
    BY <2>1 DEF Outcome!vars
<1>4. CASE Phase(c) = "new" /\ Phase(c)' = "accepted"
  <2>1. Outcome!Accept(c)
    BY <1>2, <1>4 DEF Outcome!Accept
  <2>2. QED
    BY <2>1 DEF Outcome!Next
<1>5. CASE Phase(c) = "accepted" /\ Phase(c)' = "running"
  <2>1. Outcome!Start(c)
    BY <1>2, <1>5 DEF Outcome!Start
  <2>2. QED
    BY <2>1 DEF Outcome!Next
<1>6. CASE Phase(c) = "running" /\ Phase(c)' = "completed" /\ c \in applied
  <2>1. Outcome!Complete(c)
    BY <1>2, <1>6 DEF Outcome!Complete
  <2>2. QED
    BY <2>1 DEF Outcome!Next
<1>7. CASE /\ Phase(c) = "running" /\ Phase(c)' = "failed"
           /\ c \notin applied /\ (attempts[c] = MaxAttempts \/ c \in rejected)
  <2>1. Outcome!Fail(c)
    BY <1>2, <1>7 DEF Outcome!Fail
  <2>2. QED
    BY <2>1 DEF Outcome!Next
<1>8. QED
  BY <1>3, <1>4, <1>5, <1>6, <1>7 DEF PhaseStep

(* What one more record does to its command's phase. *)
LEMMA RecordStep ==
    ASSUME TInv, RunInv, OrderInv, NEW c \in Commands, NEW tag \in Tags,
           Accepted(c, tag) \/ Refused(c, tag),
           tag # "RECEIVED" => Received(c),
           tag = "COMPLETED" => c \in applied,
           tag \in {"FAILED", "TIMEOUT"} => Exhausted(c),
           tag \in {"COMPLETED", "FAILED", "TIMEOUT"} => "SENT" \in durable[c],
           UNCHANGED <<attempts, applied, rejected>>
    PROVE  [Outcome!Next]_(Outcome!vars)
<1>1. CommandOK(c) /\ (durable[c] # {} => "RECEIVED" \in durable[c])
  BY DEF RunInv, OrderInv, RecordsKnown, Received
<1>2. durable' = durable \/ durable' = [durable EXCEPT ![c] = @ \union {tag}]
  BY DEF Accepted, Refused
<1>3. /\ \A d \in Commands \ {c} : durable'[d] = durable[d]
      /\ durable'[c] = durable[c] \/ durable'[c] = durable[c] \union {tag}
  BY <1>2, RunParts
<1>4. PhaseStep(c)
  <2>1. CASE durable'[c] = durable[c]
    BY <2>1 DEF PhaseStep, Phase
  <2>2. CASE durable'[c] = durable[c] \union {tag} /\ durable'[c] # durable[c]
    <3>1. CASE tag \in {"QUEUED", "RETRY", "ACK", "EXECUTING", "TELEMETRY"}
      <4>1. \A t \in {"RECEIVED", "SENT", "COMPLETED", "FAILED", "TIMEOUT"} :
                t \in durable'[c] <=> t \in durable[c]
        BY <2>2, <3>1
      <4>2. QED
        BY <4>1 DEF PhaseStep, Phase
    <3>2. CASE tag = "RECEIVED"
      <4>1. durable[c] = {} /\ durable'[c] = {"RECEIVED"}
        BY <1>1, <2>2, <3>2
      <4>2. QED
        BY <4>1 DEF PhaseStep, Phase
    <3>3. CASE tag = "SENT"
      <4>1. "SENT" \notin durable[c] /\ "RECEIVED" \in durable[c]
        BY <2>2, <3>3 DEF Received
      <4>2. QED
        BY <2>2, <3>3, <4>1 DEF PhaseStep, Phase
    <3>4. CASE tag = "COMPLETED"
      <4>1. "COMPLETED" \notin durable[c] /\ "SENT" \in durable[c] /\ c \in applied
        BY <2>2, <3>4
      <4>2. "FAILED" \notin durable[c] /\ "TIMEOUT" \notin durable[c]
        BY <1>1, <4>1 DEF CommandOK, Reported, Exhausted
      <4>3. QED
        BY <2>2, <3>4, <4>1, <4>2 DEF PhaseStep, Phase
    <3>5. CASE tag \in {"FAILED", "TIMEOUT"}
      <4>1. /\ "COMPLETED" \notin durable[c] /\ "SENT" \in durable[c]
            /\ c \notin applied /\ (attempts[c] = MaxAttempts \/ c \in rejected)
        BY <1>1, <3>5 DEF CommandOK, Exhausted
      <4>2. QED
        BY <2>2, <3>5, <4>1 DEF PhaseStep, Phase
    <3>6. QED
      BY <3>1, <3>2, <3>3, <3>4, <3>5 DEF Tags
  <2>3. QED
    BY <1>3, <2>1, <2>2
<1>5. QED
  BY <1>3, <1>4, PhaseMoves

LEMMA SameRecords ==
    ASSUME UNCHANGED <<durable, attempts, applied, rejected>> PROVE UNCHANGED Outcome!vars
BY DEF Outcome!vars, Phase

LEMMA EmitRefines ==
    ASSUME TInv, RunInv, OrderInv, NEW w \in Workers,
           \/ EmitQueued(w) \/ EmitSent(w) \/ EmitAck(w) \/ EmitExecuting(w) \/ EmitCompleted(w)
           \/ EmitRetry(w) \/ EmitTelemetry(w) \/ EmitFailure(w)
    PROVE  [Outcome!Next]_(Outcome!vars)
<1>1. /\ wpc[w] # "idle" /\ wcmd[w] \in Commands /\ WorkerOK(w)
      /\ failure[w] \in {"FAILED", "TIMEOUT"} /\ Received(wcmd[w])
      /\ wpc[w] \in {"completed", "fail"} => "SENT" \in durable[wcmd[w]]
  BY WorkerParts
     DEF EmitQueued, EmitSent, EmitAck, EmitExecuting, EmitCompleted, EmitOrGiveUp,
         EmitRetry, EmitTelemetry, EmitFailure, RunInv, OrderInv, WorkersKnown, SentFirst, RunPcs
<1>2. UNCHANGED <<attempts, applied, rejected>>
  BY DEF EmitQueued, EmitSent, EmitAck, EmitExecuting, EmitCompleted, EmitOrGiveUp,
         EmitRetry, EmitTelemetry, EmitFailure
<1>3. PICK tag \in Tags : /\ Accepted(wcmd[w], tag) \/ Refused(wcmd[w], tag)
                          /\ tag = "COMPLETED" => wpc[w] = "completed"
                          /\ tag \in {"FAILED", "TIMEOUT"} => wpc[w] = "fail"
  <2>1. {"QUEUED", "SENT", "RETRY", "ACK", "EXECUTING", "COMPLETED", "FAILED", "TIMEOUT",
         "TELEMETRY"} \subseteq Tags
    BY DEF Tags
  <2>2. CASE EmitQueued(w) \/ EmitSent(w) \/ EmitAck(w) \/ EmitExecuting(w) \/ EmitCompleted(w)
    BY <2>1, <2>2 DEF EmitQueued, EmitSent, EmitAck, EmitExecuting, EmitCompleted, EmitOrGiveUp
  <2>3. CASE EmitRetry(w) \/ EmitTelemetry(w) \/ EmitFailure(w)
    BY <1>1, <2>1, <2>3 DEF EmitRetry, EmitTelemetry, EmitFailure
  <2>4. QED
    BY <2>2, <2>3
<1>4. /\ tag = "COMPLETED" => wcmd[w] \in applied
      /\ tag \in {"FAILED", "TIMEOUT"} => Exhausted(wcmd[w])
  BY <1>1, <1>3 DEF WorkerOK, RunOK
<1>5. QED
  BY <1>1, <1>2, <1>3, <1>4, RecordStep

LEMMA ExecuteRefines ==
    ASSUME TInv, RunInv, OrderInv, NEW w \in Workers, Execute(w)
    PROVE  [Outcome!Next]_(Outcome!vars)
<1> DEFINE c == wcmd[w]
<1>1. wpc[w] = "attempt" /\ c \in Commands /\ WorkerOK(w) /\ CommandOK(c)
  BY ExecuteParts, WorkerParts DEF RunInv
<1>2. c \notin applied /\ c \notin rejected /\ attempts[c] < MaxAttempts
  BY <1>1, RunParts, WorkerParts DEF WorkerOK, RunOK
<1>3. "SENT" \in durable[c]
  BY <1>1 DEF OrderInv, SentFirst, RunPcs
<1>4. durable[c] \intersect {"COMPLETED", "FAILED", "TIMEOUT"} = {}
  BY <1>1, <1>2, RunParts DEF CommandOK, Reported, Exhausted
<1>5. Phase(c) = "running"
  BY <1>3, <1>4 DEF Phase
<1>6. /\ attempts' = [attempts EXCEPT ![c] = @ + 1] /\ UNCHANGED durable
      /\ \/ UNCHANGED <<applied, rejected>>
         \/ applied' = applied \union {c} /\ UNCHANGED rejected
         \/ rejected' = rejected \union {c} /\ UNCHANGED applied
  BY ExecuteParts
<1>7. \A d \in Commands : Phase(d)' = Phase(d)
  BY <1>6 DEF Phase
<1>8. Outcome!Attempt(c)
  BY <1>1, <1>2, <1>5, <1>6, <1>7 DEF Outcome!Attempt
<1>9. QED
  BY <1>1, <1>8 DEF Outcome!Next

LEMMA NextRefines ==
    TInv /\ RunInv /\ OrderInv /\ [Next]_vars => [Outcome!Next]_(Outcome!vars)
<1> SUFFICES ASSUME TInv, RunInv, OrderInv, [Next]_vars PROVE [Outcome!Next]_(Outcome!vars)
  OBVIOUS
<1>1. CASE UNCHANGED <<durable, attempts, applied, rejected>>
  BY <1>1, SameRecords
<1>2. ASSUME NEW c \in Commands, Dispatch(c) PROVE [Outcome!Next]_(Outcome!vars)
  <2>1. "RECEIVED" \in Tags /\ UNCHANGED <<attempts, applied, rejected>>
    BY <1>2 DEF Dispatch, Tags
  <2>2. QED
    BY <1>2, <2>1, RecordStep DEF Dispatch
<1>3. CASE Crash \/ Attach \/ Consumer
  BY <1>1, <1>3
     DEF Crash, Attach, Consumer, Consume, ConsumerMark, ConsumerSend, ConsumerCommit, worldVars
<1>4. ASSUME NEW w \in Workers, Work(w) PROVE [Outcome!Next]_(Outcome!vars)
  <2>1. CASE Take(w) \/ Enqueue(w) \/ PersistEnqueued(w)
    BY <1>1, <2>1 DEF Take, Enqueue, PersistEnqueued, worldVars
  <2>2. QED
    BY <1>4, <2>1, EmitRefines, ExecuteRefines DEF Work
<1>5. ASSUME NEW o \in Operators, Operate(o) PROVE [Outcome!Next]_(Outcome!vars)
  BY <1>1, <1>5
     DEF Operate, ReplayStep, ReplayReset, ReplayMark, ReplaySend, ReplayWrite,
         PersistAction, ReplayCheck, Resolve, worldVars
<1>6. CASE UNCHANGED vars
  BY <1>1, <1>6 DEF vars, worldVars
<1>7. QED
  BY <1>2, <1>3, <1>4, <1>5, <1>6 DEF Next

LEMMA InitRefines == Init => Outcome!Init
<1> SUFFICES ASSUME Init PROVE Outcome!Init
  OBVIOUS
<1>1. \A c \in Commands : Phase(c) = "new"
  BY DEF Init, Phase
<1>2. QED
  BY <1>1 DEF Init, Outcome!Init

(* The order of a command's records, in every behaviour. *)
THEOREM OrderInductive == Spec => [](TInv /\ RunInv /\ OrderInv)
<1>1. QED
  BY InitTInv, NextTInv, InitRuns, NextRuns, InitOrder, NextOrder, PTL DEF Spec

(* ImplementsOutcome: submission, orchestration, restarts, losses and       *)
(* replays keep the promise of CommandOutcome, for every instance.          *)
THEOREM PipelineImplementsOutcome == Spec => ImplementsOutcome
<1>1. QED
  BY OrderInductive, InitRefines, NextRefines, PTL DEF Spec, ImplementsOutcome, Outcome!Spec

-----------------------------------------------------------------------------
(* A run that is over is final: no worker of it is left to send requests or *)
(* records, no other worker gets past a QUEUED record that is stored, and    *)
(* Submit's RECEIVED record is refused.                                     *)

Final(c) ==
    /\ Ended(c)'
    /\ durable'[c] = durable[c] /\ attempts'[c] = attempts[c]
    /\ (c \in applied' <=> c \in applied) /\ (c \in rejected' <=> c \in rejected)

\* What a step must leave alone for an ended run to be final.
LEMMA StaysEnded ==
    ASSUME NEW c, Ended(c), durable'[c] = durable[c], attempts'[c] = attempts[c],
           c \in applied' <=> c \in applied, c \in rejected' <=> c \in rejected,
           \A w \in Workers :
               wcmd'[w] = c /\ wpc'[w] \in RunPcs => wcmd[w] = c /\ wpc[w] \in RunPcs
    PROVE  Final(c)
BY DEF Ended, Final

LEMMA QuietFinal ==
    ASSUME UNCHANGED <<durable, attempts, applied, rejected>>,
           UNCHANGED <<wpc, wcmd>> \/ \A w \in Workers : wpc'[w] \notin RunPcs,
           NEW c, Ended(c)
    PROVE  Final(c)
BY StaysEnded

(* A record of another command, or one that is stored, changes nothing. *)
LEMMA IngestFinal ==
    ASSUME TInv, NEW c \in Commands, NEW d \in Commands, NEW tag \in Tags,
           Accepted(d, tag) \/ Refused(d, tag), d = c => tag \in durable[c]
    PROVE  durable'[c] = durable[c]
<1>1. /\ durable[c] \subseteq durable'[c]
      /\ \A t \in durable'[c] : t \in durable[c] \/ (c = d /\ t = tag)
  BY IngestAdds
<1>2. QED
  BY <1>1

(* A worker that puts a record through Ingest is not on the ended run. *)
LEMMA EmitFinal ==
    ASSUME TInv, NEW w \in Workers, NEW tag \in Tags, NEW pc,
           Accepted(wcmd[w], tag) \/ Refused(wcmd[w], tag), wpc[w] # "idle",
           UNCHANGED <<attempts, applied, rejected, wcmd>>, wpc' = [wpc EXCEPT ![w] = pc],
           NEW c \in Commands, Ended(c),
           wcmd[w] = c => tag \in durable[c] /\ pc \notin RunPcs
    PROVE  Final(c)
<1>1. durable'[c] = durable[c]
  BY WorkerParts, IngestFinal
<1>2. \A v \in Workers :
         wcmd'[v] = c /\ wpc'[v] \in RunPcs => wcmd[v] = c /\ wpc[v] \in RunPcs
  BY WorkerParts
<1>3. QED
  BY <1>1, <1>2, StaysEnded

LEMMA EmitsFinal ==
    ASSUME TInv, NEW w \in Workers, NEW c \in Commands, Ended(c),
           \/ EmitQueued(w) \/ EmitSent(w) \/ EmitAck(w) \/ EmitExecuting(w) \/ EmitCompleted(w)
           \/ EmitRetry(w) \/ EmitTelemetry(w) \/ EmitFailure(w)
    PROVE  Final(c)
<1>1. /\ Tags = {"RECEIVED", "QUEUED", "SENT", "RETRY", "ACK", "EXECUTING", "COMPLETED",
                 "FAILED", "TIMEOUT", "TELEMETRY"}
      /\ RunPcs = {"sent", "attempt", "retry", "ack", "executing", "completed", "telemetry", "fail"}
      /\ failure[w] \in {"FAILED", "TIMEOUT"}
  BY WorkerParts DEF Tags, RunPcs
<1>2. UNCHANGED <<attempts, applied, rejected, wcmd>>
  BY DEF EmitQueued, EmitSent, EmitAck, EmitExecuting, EmitCompleted, EmitOrGiveUp,
         EmitRetry, EmitTelemetry, EmitFailure
<1>3. wcmd[w] = c => wpc[w] \notin RunPcs
  BY DEF Ended
<1>4. ASSUME NEW pc, NEW tag \in Tags, NEW next, EmitOrGiveUp(w, pc, tag, next),
             pc \in RunPcs \/ (pc = "queued" /\ tag = "QUEUED")
      PROVE  Final(c)
  <2>1. wpc[w] = pc /\ wpc[w] # "idle"
    BY <1>1, <1>4 DEF EmitOrGiveUp
  <2>2. CASE Accepted(wcmd[w], tag) /\ wpc' = [wpc EXCEPT ![w] = next]
    <3>1. wcmd[w] # c
      BY <1>3, <1>4, <2>1, <2>2 DEF Ended, Accepted
    <3>2. QED
      BY <1>2, <2>1, <2>2, <3>1, EmitFinal
  <2>3. CASE Refused(wcmd[w], tag) /\ Finish(w, "FAILED", "idle")
    <3>1. wpc' = [wpc EXCEPT ![w] = "idle"] /\ "idle" \notin RunPcs
      BY <1>1, <2>3 DEF Finish
    <3>2. wcmd[w] = c => tag \in durable[c]
      BY <1>3, <1>4, <2>1 DEF Ended
    <3>3. QED
      BY <1>2, <2>1, <2>3, <3>1, <3>2, EmitFinal
  <2>4. QED
    BY <1>4, <2>2, <2>3 DEF EmitOrGiveUp
<1>5. CASE EmitQueued(w) \/ EmitSent(w)
  BY <1>1, <1>4, <1>5 DEF EmitQueued, EmitSent
<1>6. CASE EmitAck(w) \/ EmitExecuting(w) \/ EmitCompleted(w)
  BY <1>1, <1>4, <1>6 DEF EmitAck, EmitExecuting, EmitCompleted
<1>7. CASE EmitRetry(w) \/ EmitTelemetry(w) \/ EmitFailure(w)
  <2>1. wcmd[w] # c /\ wpc[w] # "idle"
    BY <1>1, <1>3, <1>7 DEF EmitRetry, EmitTelemetry, EmitFailure
  <2>2. PICK tag \in Tags : Accepted(wcmd[w], tag) \/ Refused(wcmd[w], tag)
    BY <1>1, <1>7 DEF EmitRetry, EmitTelemetry, EmitFailure
  <2>3. PICK pc : wpc' = [wpc EXCEPT ![w] = pc]
    BY <1>7 DEF EmitRetry, EmitTelemetry, EmitFailure, Finish
  <2>4. QED
    BY <1>2, <2>1, <2>2, <2>3, EmitFinal
<1>8. QED
  BY <1>5, <1>6, <1>7

LEMMA WorkFinal ==
    ASSUME TInv, NEW w \in Workers, NEW c \in Commands, Ended(c), Work(w) PROVE Final(c)
<1>1. CASE Execute(w)
  <2>1. wcmd[w] # c
    BY <1>1, ExecuteParts DEF Ended, RunPcs
  <2>2. /\ durable'[c] = durable[c] /\ attempts'[c] = attempts[c]
        /\ (c \in applied' <=> c \in applied) /\ (c \in rejected' <=> c \in rejected)
    BY <1>1, <2>1, ExecuteParts, RunParts
  <2>3. \A v \in Workers :
           wcmd'[v] = c /\ wpc'[v] \in RunPcs => wcmd[v] = c /\ wpc[v] \in RunPcs
    BY <1>1, <2>1, ExecuteParts, WorkerParts
  <2>4. QED
    BY <2>2, <2>3, StaysEnded
<1>2. CASE Take(w) \/ Enqueue(w) \/ PersistEnqueued(w)
  <2>1. UNCHANGED <<durable, attempts, applied, rejected>>
    BY <1>2 DEF Take, Enqueue, PersistEnqueued, worldVars
  <2>2. wpc'[w] \notin RunPcs /\ \A v \in Workers \ {w} : wpc'[v] = wpc[v] /\ wcmd'[v] = wcmd[v]
    BY <1>2, WorkerParts DEF Take, Enqueue, PersistEnqueued, RunPcs
  <2>3. QED
    BY <2>1, <2>2, StaysEnded
<1>3. QED
  BY <1>1, <1>2, EmitsFinal DEF Work

LEMMA NextFinal ==
    ASSUME TInv, OrderInv, NEW c \in Commands, Ended(c), Next PROVE Final(c)
<1>1. CASE Crash
  <2>1. \A w \in Workers : wpc'[w] \notin RunPcs
    BY <1>1 DEF Crash, RunPcs
  <2>2. QED
    BY <1>1, <2>1, QuietFinal DEF Crash
<1>2. CASE Attach \/ Consumer
  <2>1. UNCHANGED <<durable, attempts, applied, rejected, wpc, wcmd>>
    BY <1>2 DEF Attach, Consumer, Consume, ConsumerMark, ConsumerSend, ConsumerCommit,
       worldVars, workVars
  <2>2. QED
    BY <2>1, QuietFinal
<1>3. ASSUME NEW d \in Commands, Dispatch(d) PROVE Final(c)
  <2>1. "RECEIVED" \in durable[c]
    BY DEF Ended, OrderInv, RecordsKnown, Received
  <2>2. durable'[c] = durable[c]
    BY <1>3, <2>1, IngestFinal DEF Dispatch, Tags
  <2>3. UNCHANGED <<attempts, applied, rejected, wpc, wcmd>>
    BY <1>3 DEF Dispatch, workVars
  <2>4. QED
    BY <2>2, <2>3, StaysEnded
<1>4. ASSUME NEW w \in Workers, Work(w) PROVE Final(c)
  BY <1>4, WorkFinal
<1>5. ASSUME NEW o \in Operators, Operate(o) PROVE Final(c)
  <2>1. UNCHANGED <<durable, attempts, applied, rejected, wpc, wcmd>>
    BY <1>5 DEF Operate, ReplayStep, ReplayReset, ReplayMark, ReplaySend, ReplayWrite,
       PersistAction, ReplayCheck, Resolve, worldVars, workVars
  <2>2. QED
    BY <2>1, QuietFinal
<1>6. QED
  BY <1>1, <1>2, <1>3, <1>4, <1>5 DEF Next

(* EndedRunsAreFinal: whatever is re-delivered, replayed, crashed or lost,   *)
(* a command whose run is over gets no further request and no further        *)
(* record, so neither a restart nor a replay can finish what a run left.     *)
THEOREM EndedRunsStay == Spec => EndedRunsAreFinal
<1>1. TInv /\ RunInv /\ OrderInv /\ [Next]_vars =>
         [\A c \in Commands : Ended(c) =>
            /\ Ended(c)'
            /\ durable'[c] = durable[c] /\ attempts'[c] = attempts[c]
            /\ (c \in applied' <=> c \in applied) /\ (c \in rejected' <=> c \in rejected)]_vars
  BY NextFinal DEF Final
<1>2. QED
  BY <1>1, OrderInductive, PTL DEF Spec, EndedRunsAreFinal
=============================================================================
