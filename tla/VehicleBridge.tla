---------------------------- MODULE VehicleBridge ----------------------------
(***************************************************************************)
(* The vehicle command bridge: a C++ process (ground/vehicle_command_      *)
(* bridge) that reads requests from its standard input and writes one      *)
(* answer line for each, and its Go client (cppVehicleCommandBridge in     *)
(* command_execution_orchestrator.go), which serialises calls with a       *)
(* mutex and reads each answer in a goroutine.  A call that runs into its  *)
(* timeout returns and leaves its reader behind; nobody restarts a bridge  *)
(* that died; and an answer does not have to name the command it is for.   *)
(* Two readers share one bufio.Reader without a lock: from then on a line   *)
(* may be taken, lost, garbled or, being still in the buffer, taken again.  *)
(***************************************************************************)
EXTENDS VehicleCommands, Sequences, FiniteSets

CONSTANTS
    BridgeCommands,    \* what the orchestrator asks for
    MaxCalls,          \* bound: calls of the client, retries included
    MaxSurplus         \* bound: lines that requests are cut into, beyond one each

ASSUME BridgeAssumption ==
    /\ BridgeCommands \subseteq {c \in CommandType : c.target \in Targets}
    /\ MaxCalls \in Nat /\ MaxSurplus \in Nat

VARIABLES
    alive,             \* the bridge process runs
    bridgeLogical,     \* logical_engine: state by target
    bridgeVehicle,     \* physical_adapter
    requests,          \* standard input: [call, command], one for each line
    lines,             \* standard output: [call, answer, steps]
    calls,             \* calls made so far; the last may be waiting
    waiting,           \* the client holds the mutex
    readers,           \* goroutines blocked in ReadString, by call
    torn,              \* two of them were in the buffer at once
    buffered,          \* lines that came through the buffer
    surplus,           \* history: lines written beyond one for each call
    results            \* history: what each call returned

processVars == <<alive, bridgeLogical, bridgeVehicle>>
clientVars == <<calls, waiting, readers, torn, buffered, surplus, results>>
bridgeVars == <<processVars, requests, lines, clientVars>>

\* What a call returns that got no line.
Failed(reason) == [call |-> 0, answer |-> reason, steps |-> 0]

BridgeInit ==
    /\ alive = TRUE
    /\ bridgeLogical = [t \in Targets |-> StandBy]
    /\ bridgeVehicle = NewAdapter
    /\ requests = <<>> /\ lines = <<>>
    /\ calls = 0 /\ waiting = FALSE
    /\ readers = {} /\ torn = FALSE /\ buffered = {}
    /\ surplus = 0
    /\ results = <<>>
-----------------------------------------------------------------------------
(* The client *)

\* The fields of a request are joined with tabs as they are.  A line feed in one cuts
\* the request into lines, a tab adds a field: a piece is the command, a line of
\* another number of fields, or empty.  Some piece holds the tabs of the request.
Line(text) == [target |-> "", opcode |-> text, parameters |-> ""]
Malformed == Line("malformed")
Blank == Line("blank")

Cuts(c) ==
    {cut \in UNION {[1 .. n + 1 -> {c, Malformed, Blank}] : n \in 0 .. MaxSurplus - surplus} :
        \E i \in DOMAIN cut : cut[i] # Blank}

Lines(call, cut) == [i \in DOMAIN cut |-> [call |-> call, command |-> cut[i]]]

Return(result) == waiting' = FALSE /\ results' = Append(results, result)

\* A goroutine starts to read, whether or not one of an earlier call still does.
Request(cut) ==
    /\ requests' = requests \o Lines(calls + 1, cut)
    /\ surplus' = surplus + Len(cut) - 1
    /\ readers' = readers \union {calls + 1}
    /\ torn' = (torn \/ readers # {})
    /\ waiting' = TRUE
    /\ UNCHANGED results

\* mutant: calls are not serialised
CallAtOnce(c) ==
    /\ calls < MaxCalls /\ alive
    /\ calls' = calls + 1
    /\ \E cut \in Cuts(c) : Request(cut)
    /\ UNCHANGED <<processVars, lines, buffered>>

\* The write succeeds while there is a process to read the pipe.
Call(c) ==
    /\ ~waiting /\ calls < MaxCalls
    /\ calls' = calls + 1
    /\ \/ alive /\ \E cut \in Cuts(c) : Request(cut)
       \/ /\ ~alive
          /\ results' = Append(results, Failed("write failed"))
          /\ UNCHANGED <<requests, readers, torn, surplus, waiting>>
    /\ UNCHANGED <<processVars, lines, buffered>>

\* ReadString of reader r ends with this line or error; that of a call that gave up
\* throws it away.
Reads(r, result) ==
    /\ readers' = readers \ {r}
    /\ IF waiting /\ r = calls THEN Return(result) ELSE UNCHANGED <<waiting, results>>

Consumed == lines # <<>> /\ lines' = Tail(lines) /\ buffered' = buffered \union {Head(lines)}

ReadAnswer(r) ==
    /\ Consumed
    /\ Reads(r, Head(lines))
    /\ UNCHANGED <<processVars, requests, calls, torn, surplus>>

\* A buffer two readers were in at once: its bytes and its indices need not fit.
LoseLine ==
    /\ torn /\ readers # {} /\ Consumed
    /\ UNCHANGED <<processVars, requests, calls, waiting, readers, torn, surplus, results>>

ReadTorn(r) ==
    /\ torn
    /\ Consumed \/ UNCHANGED <<lines, buffered>>
    /\ \E got \in buffered \union {Failed("malformed")} : Reads(r, got)
    /\ UNCHANGED <<processVars, requests, calls, torn, surplus>>

ReadEndOfFile(r) ==
    /\ ~alive /\ lines = <<>>
    /\ Reads(r, Failed("read failed"))
    /\ UNCHANGED <<processVars, requests, lines, calls, torn, buffered, surplus>>

AttemptTimeout ==
    /\ waiting
    /\ Return(Failed("deadline exceeded"))
    /\ UNCHANGED <<processVars, requests, lines, calls, readers, torn, buffered, surplus>>
-----------------------------------------------------------------------------
(* The bridge process *)

\* The adapter is asked even when the command did not execute: it refuses.
PhysicalAnswer(c, draw) ==
    IF LogicalAnswer(bridgeLogical[c.target], c) = "Executed"
    THEN AdapterAnswer(bridgeVehicle, c, draw) ELSE "PreconditionsFailed"

PhysicalAfter(c, draw) ==
    IF LogicalAnswer(bridgeLogical[c.target], c) = "Executed"
    THEN AdapterAfter(bridgeVehicle, c, draw) ELSE bridgeVehicle

Throws(c) ==
    LogicalAnswer(bridgeLogical[c.target], c) = "Executed" /\ ApplyThrows(bridgeVehicle, c)

Answers(request, answer, steps) ==
    lines' = Append(lines, [call |-> request.call, answer |-> answer, steps |-> steps])

Serve(draw) ==
    /\ alive /\ requests # <<>> /\ Head(requests).command \in BridgeCommands
    /\ LET request == Head(requests)
           c == request.command
       IN  /\ ~Throws(c)
           /\ bridgeLogical' = [bridgeLogical EXCEPT ![c.target] = LogicalAfter(@, c)]
           /\ bridgeVehicle' = PhysicalAfter(c, draw)
           /\ Answers(request, PhysicalAnswer(c, draw), bridgeVehicle'.steps)
    /\ requests' = Tail(requests)
    /\ UNCHANGED <<alive, clientVars>>

\* An exception nobody catches ends main().
ServeThrows ==
    /\ alive /\ requests # <<>> /\ Head(requests).command \in BridgeCommands
    /\ Throws(Head(requests).command)
    /\ alive' = FALSE
    /\ requests' = <<>>
    /\ UNCHANGED <<bridgeLogical, bridgeVehicle, lines, clientVars>>

\* A line that is not a request is answered with an error, an empty one with nothing.
PassOver ==
    /\ alive /\ requests # <<>> /\ Head(requests).command \in {Malformed, Blank}
    /\ IF Head(requests).command = Malformed THEN Answers(Head(requests), "error", 0)
       ELSE UNCHANGED lines
    /\ requests' = Tail(requests)
    /\ UNCHANGED <<processVars, clientVars>>

BridgeNext ==
    \/ \E c \in BridgeCommands : Call(c)
    \/ \E r \in readers : ReadAnswer(r) \/ ReadTorn(r) \/ ReadEndOfFile(r)
    \/ LoseLine
    \/ AttemptTimeout
    \/ \E draw \in Draws : Serve(draw)
    \/ ServeThrows
    \/ PassOver

BridgeSpec == BridgeInit /\ [][BridgeNext]_bridgeVars
-----------------------------------------------------------------------------
BridgeTypeOK ==
    /\ bridgeLogical \in [Targets -> LogicalState]
    /\ bridgeVehicle \in AdapterType
    /\ calls \in 0 .. MaxCalls
    /\ readers \subseteq 1 .. MaxCalls
    /\ surplus \in Nat
    /\ Len(results) = IF waiting THEN calls - 1 ELSE calls

Answered == {k \in DOMAIN results : results[k].call # 0}

\* An answer is never early.  While no call was made with an earlier one's reader
\* still in the buffer, answers come in the order of the commands, timeouts or
\* not, and a call falls behind by no more than the lines that requests were cut
\* into beyond one each: with none, every answer is the one to the call itself
\* (command_execution_orchestrator.go: Execute holds b.mu but leaves its reader
\* behind; parseVehicleBridgeResponse does not look at the command ID).
AnswersInOrder ==
    /\ \A k \in Answered : results[k].call <= k
    /\ ~torn =>
          /\ \A k \in Answered : k - results[k].call <= surplus
          /\ \A j, k \in Answered : j < k => results[j].call <= results[k].call
=============================================================================
