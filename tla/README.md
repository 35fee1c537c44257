# A TLA+ model of the TRISHULA ground and flight segments

TRISHULA is a lunar mission simulator in C++ with a ground segment in Go and a
browser front end. This directory models the parts of it where order, memory,
failure and limits decide what happens:

* the **ground data service** (`src/backend/services/ground-data-service`, Go):
  it stores every record, sends operators' commands to a vehicle and serves the
  mission's state, with goroutines, HTTP requests, a database and Kafka;
* the **flight and ground code in C++** (`src/backend/src`): the mission's
  phases and their controllers, the command link, the receiving stages of the
  ground station, the vehicle bridge, the rover's navigation, its science
  archives and the autonomous surface mission.

File names without a directory are of the Go service, those with one of
`src/backend/src`.

## The system

| Component (source) | State | Operations | Talks to |
| --- | --- | --- | --- |
| Ingestion boundary (`service.go`, `postgres_store_postgres.go`) | rows of `ground_records`; duplicate window `seenRecordIDs`; `lastSequence`, `latestByKind`, `counters` | `Ingest`, `rebuild`, `trimSeenIDs` | store, Redis cache, Kafka publisher; called by everything that emits a record |
| Kafka publisher and consumer (`kafka_publisher.go`, `kafka_consumer.go`, `stream_router.go`) | partitions keyed by source node, committed offsets | `Publish`, fetch, route, commit | engines, reconciler, orchestrator |
| Command lifecycle engine, execution reconciliation (`command_engine.go`, `command_execution_reconciliation.go`) | lifecycle and execution state of each command | `Apply` with a transition table | read by the HTTP views |
| Command dispatch (`command_dispatch.go`) | none | `Submit` | `Ingest` |
| Orchestrator, reliability policy (`command_execution_orchestrator.go`, `command_reliability.go`) | `inFlight`, `terminal`, queue channel, workers | `Submit`, `Replay`, `worker`, `execute`, `executeWithRetry` | vehicle bridge, `Ingest`, dead-letter queue |
| Dead-letter queue (`command_dead_letter.go`) | entries PENDING, REPLAYED, RESOLVED | `Enqueue`, `Replay`, `Resolve`, `rebuild` | `Ingest`, orchestrator |
| Scheduler (`command_scheduler.go`) | schedules, min-heap of pending ones, record number | `Create`, `Cancel`, `dispatchDue`, `persist`, `rebuild` | dispatch, `Ingest` |
| Vehicle bridge (Go client, `ground/vehicle_command_bridge.cpp`) | a child process, its pipes, one reader goroutine per call | `Execute`; the process reads a line, answers a line | orchestrator, command execution, adapter |
| Command execution, vehicle adapter (`ground/command_execution.cpp`, `ground/vehicle_command_adapter.cpp`, `rover/surface_rover.cpp`) | mode and safe mode of each target; the rover's modes | one command | bridge, closed loop |
| Ground station and pipelines (`ground/space_link.cpp`, `ground/{telemetry,event,command}_ingestion.cpp`) | receive queue, archives, last sequence per stream, current state, active faults, command IDs | receive, pop, ingest, clear | everything that sends packets |
| Command round trip (`ground/spacecraft_command_round_trip.cpp`, `ground/spacecraft_command_link.cpp`) | sequence numbers, the station and records it keeps across commands | one command up and its reports down; reset | simulation engine |
| Closed loop and mission cycle (`ground/closed_loop_feedback.cpp`, `ground/closed_loop_mission_cycle.cpp`) | its event and telemetry pipelines, a cycle of commands | one command of the cycle; reset | execution, adapter, pipelines |
| Physical mission (`mission/physical_mission_execution.cpp`) | phase, elapsed time, planned burn, stages done | step, the three stages of the lunar orbit | its controllers |
| Its controllers (`mission/physical_mission_{runtime_controller,phase_controller,ground_uplink,telemetry_loop}.cpp`) | state and control sequence; transitions; counter of records; packet sequence | start, pause, resume, abort, reset, step; post; publish | the Go service, or a station of their own |
| Mission timeline (`mission/mission_execution.cpp`) | phase, elapsed time, rover | step, reset | rover |
| Rover navigation (`rover/closed_loop_rover_navigation.cpp`, `rover/autonomous_rover_navigation.cpp`) | the leg's locals; A* nodes and queue | plan, control step | surface mission |
| Science archive, relay, processing (`rover/science_archive.cpp`, `rover/science_relay.cpp`, `rover/ground_science_processing.cpp`) | files of the rover, Vikram, the ground and the analyses | save, transmit, analyse | surface mission |
| Autonomous surface mission (`rover/autonomous_surface_mission.cpp`) | remaining targets, energy, result, knowledge base | execute | navigation, archives, relay |
| Alerts (`mission_control_alerts.go`) | alerts ACTIVE, ACKNOWLEDGED, CLEARED | `Apply`, acknowledge, clear, restore | event engine, `Ingest` |
| Mission state, its synchronization and consistency check (`mission_state*.go`) | projected state per vehicle and subsystem | `Apply`, `ReplaceMission` | consumer, store |
| Runtime bridge (`physical_mission_runtime_bridge.go`) | a child process, a ticker | START, PAUSE, RESUME, ABORT, RESET, STEP | runtime controller |
| Landing, maneuvers, guidance, estimation, physics | floating-point state vectors | one step of the simulation | sequential |
| Mission Control UI (`src/mission-control-ui`) | presentation | HTTP calls | the service |

What is hard about it:

* the store, Kafka and memory are three copies of the same facts, and the
  process may die between any two writes. `main` ends in
  `log.Fatal(http.ListenAndServe(...))`, so its deferred `Close` calls never
  run: every stop is a crash;
* locks are released before the store, the channel or the vehicle is called;
  what was checked under the lock may no longer hold after it;
* record IDs are the only idempotency key. Which IDs are reused, and whether a
  duplicate counts as success or failure, decides what a retry or replay does;
* several HTTP requests, one consumer, a worker and a ticker run concurrently;
* the C++ components are sequential, but they keep memory across calls, resets
  and restarts that do not fit each other: a station and its pipelines each have
  an idea of their own of what is a duplicate, sequence numbers start again
  where the receivers remember, archives and queues fill, an exception or the
  end of the process leaves half of an operation behind.

PROJECT.json lists these hazards at their lines, with the properties that cover
them or the reason why none does yet.

## The modules

| Module | Models | State and actions |
| --- | --- | --- |
| `GroundIngest` | the ingestion boundary | the rows, Kafka and the in-memory state; `Ingest` is `Accept`, a duplicate, `StorageFailure` (the INSERT fails, violates the key, or commits although its answer is lost) or `DieInIngest` (the process dies inside); `Restart` is `newService` with `rebuild` |
| `RecordBoundary` | what that boundary promises of each record ID: recorded once, and in that step handed to Kafka or never, its caller told of success or never | abstract specification |
| `GroundIngestProofs` | | proofs about `GroundIngest`, and that it implements `RecordBoundary` |
| `CommandStates` | the two transition tables | operators |
| `CommandPipeline` | a command from POST to its outcome: dispatch, Kafka, consumer, engine, reconciler, orchestrator, dead letters | one action per step between two lock, channel, store or vehicle operations |
| `CommandOutcome` | the promise of that path: a command goes new, accepted, running, then completed or failed, and the outcome stays | abstract specification |
| `CommandPipelineProofs` | | types of `CommandPipeline`, and that marks in `inFlight` are owned |
| `CommandPipelineSafety` | | one run per command, records that match the vehicle, that a run which ended stays so, and that `CommandPipeline` implements `CommandOutcome` |
| `CommandPipelineReads` | | what the read model shows, and that no command slips away |
| `CommandScheduler` | the scheduler over the same boundary | `Create`, `Cancel` and the loop, each split where the code unlocks; `persist` split between `seq.Add` and `seq.Load` |
| `CommandSchedulerProofs` | | its proofs |
| `GroundStages` | station and pipelines as operators on their state | `StationAnswer`, `TelemetryAnswer`, ... give the status of a call in the order of the code's checks, `...After` the state it leaves |
| `GroundReceipt` | the station with the three pipelines behind it | `IngestFrame` takes any packet of the traffic, `Dispatch` pops one and offers it to the pipelines; records, events and commands are popped, faults cleared by hand, archives cleared |
| `CommandRoundTrip` | the command to the spacecraft and back | a command that the uplink refuses, one that goes all the way with what it sends back, `reset` |
| `VehicleCommands` | command execution and the vehicle adapter | operators: the answer to a command and its effect, logical and physical |
| `ClosedLoop` | closed loop and mission cycle | start a cycle, process its next command (refused, applied, or with an exception), `reset` |
| `VehicleBridge` | the bridge between Go and C++ | a call, whose request may be cut into lines, its timeout, the process serving a line, passing over one or dying of an exception, a reader that takes a line or the end of the file, and a buffer that two readers tore |
| `VehicleLinkProofs` | | proofs about `GroundReceipt`, `CommandRoundTrip`, `ClosedLoop` and `VehicleBridge` |
| `PhysicalEngine` | the physical mission | operators: one step, one stage of the lunar orbit |
| `MissionRuntime` | the runtime controller over it | its six requests, and stages run on `mission()` |
| `MissionUplink` | phase controller and ground uplink | a step, one POST per metric with what may become of it, a new process |
| `TelemetryLoop` | the loop that reports in-process | step with all its packets, reset |
| `MissionTimeline` | the mission of the early campaigns | a step of each group of phases, reset |
| `FlightProofs` | | proofs about `MissionRuntime`, `MissionUplink`, `TelemetryLoop` and `MissionTimeline` |
| `RoverLeg`, `RoverNavigation` | the control loop of a leg | operators, one per rule of the loop; one control step |
| `RoutePlanner` | A* | take the next entry: pass over it or expand it |
| `ScienceFiles`, `ScienceRelay` | archives, relay, processing | operators on the files; acquire, transmit, analyse |
| `SurfaceMission` | the surface mission over `ScienceFiles` and the ends of `RoverLeg` | one iteration of its loop, one action per way it may go on |
| `RoverProofs` | | proofs about `RoverNavigation`, `ScienceRelay`, `SurfaceMission` and `RoutePlanner` |
| `MCGroundIngest`, `MCCommandPipeline`, `MCCommandScheduler`, `MCFlightSegment` | instances for TLC | |

How they fit. `CommandPipeline` and `CommandScheduler` use the boundary that
`GroundIngest` models in detail as `RecordBoundary` states it: an ID that is
recorded is refused, whatever the window remembers, and an accepted record is
stored and was handed to the publisher in the step that stored it
(`ImplementsBoundary`, and its consequences `ToldIsRecorded` and
`NoSecondChance`). `Refused` keeps the third possibility, a row
that is stored although `Ingest` reported an error. In `CommandPipeline` an `Execute`
is one step; `VehicleBridge` has its steps. `GroundStages`, `VehicleCommands`,
`PhysicalEngine`, `RoverLeg` and `ScienceFiles` hold what several components
call, as operators: the modules with the state EXTEND them, as the classes hold
their members. `SurfaceMission` takes of a leg only what its end tells
(`LegEnds`); that the legs of `RoverNavigation` end so is the theorem
`LegEndsAsSurveyTakesIt`.

Abstractions in `CommandPipeline`:

* a record is a command and a *tag*: every RecordID of the path is the command
  ID with a fixed suffix. Two partitions: command records carry the
  operator's source node, events the vehicle's (the dead-letter events the
  ground's). `log[p]` is what the consumer group has not committed;
* `Execute` is one step: it sends a request and takes an answer or a timeout.
  `applied` is what the orchestrator was answered, so a late APPLIED after a
  timeout is not in it. `rejected` is who was refused with a status that
  `isRetryableCommandFailure` does not retry (REJECTED, DENIED, INVALID,
  UNSUPPORTED): its run ends after that attempt, and the command is dead-lettered
  like one whose attempts are used up. Every other status, an error and a timeout
  are retried. Any answer may come at any attempt, as the executor is an interface;
* `PENDING`, `REPLAYED`, `RESOLVED` entries are one per command, because
  (`OutcomeMatchesVehicle`) a command is dead-lettered by one run only;
* a dead-letter row whose number was given out before the restart is taken for a
  duplicate (`NumberTaken`): `nextSeq` starts at 500000 again. Which of two rows a
  rebuild keeps is decided by when they were stamped, which is as their step begins;
* backoff takes time and changes nothing; offsets whose commit fails are the
  redelivery of a restart.

Abstractions in `CommandScheduler`: the clock is a small number; two rows of a
schedule with equal clock values stand for two instants in the order of their
states. The heap is a set (two equal entries behave as one) with the code's
order, and stale tops are trimmed where the code trims them. `Due`'s second
check in `dispatchDue` (lines 296-301) cannot fail, since the trim precedes it in
the same critical section, and is left out. `Invalid` schedules have a field
over 4096 bytes: `persist` does not validate, `Submit` does.

Abstractions in the C++ side:

* **numerics are draws.** Where an orbit, a tank, the terrain, a route's
  geometry or an estimate decides, the action takes a "draw" or "sight" that names
  the outcome, and the caller may draw any that the code's checks leave possible
  (`Possible`, `StagePossible`). Time is counted in steps, in `MissionTimeline` in
  quarters of a second. What throws is a draw too, with the state the exception
  leaves;
* **packets are records.** Encoding and decoding are modelled by whether the
  frame can be read (`Readable`); a value is the state it was taken from, so that a
  property can tell an old one from a new one;
* **a save has three steps**: another file is written, the old one removed, the
  new one renamed. `Saved` gives what a failure or the end of the process
  leaves after each;
* **a bridge's pipe** is a sequence of lines, a reader the number of the call it
  was made for. The fields of a request are not escaped: a line feed in one cuts
  the request (`Cuts`), and the pieces are the command, lines that are answered
  with an error, or empty ones that are not answered. `TrimSpace` in
  `command_dispatch.go` takes white space off the ends of a field only;
* **a torn buffer.** `ReadString` of one `bufio.Reader` by two goroutines without
  a lock is a data race. From the step on in which a second reader joins (`torn`),
  a reader may get the next line, a line that went through the buffer before, a
  malformed one that takes a line away or none, and a line may be lost. The lock
  never mends: `torn` stays. A panic of the reader would end the service, which the
  model of the bridge alone does not show;
* the round trip builds its command pipeline and its link anew for every command,
  as the code does, so that only station and telemetry records remember;
* planners choose among targets and routes by scores: `SurfaceMission` leaves the
  choice open, `RoutePlanner` has the costs in tenths of the grid's resolution;
* a leg knows its obstacle by a pointer, from the activation step on
  (`ObstacleKnown`), and takes it for one by the obstacle's own flag
  (`ObstacleActive`): a replan for a deviation counts as online with the pointer
  alone. A disturbance moves the rover near the goal or away from it (`shift`). A
  route that was found is never empty, so the branch for an empty one is left out;
* a disturbed, arriving or hazardous place is a draw; every phase of the timeline
  has the same duration, since it is read in its own phase only;
* the numbers of the mission's engine are finite: the throws for one that is not
  (`number()` in the uplink, after the record was counted as attempted; the check
  in the telemetry loop) are left out. A metric says what it says to the six digits
  it is printed with;
* the commands of a stream have one destination: `app` of a command's packet
  stands for application and destination, the key of `command_ingestion.cpp`;
* the surface mission calls `observe()` without naming a defect and `ingest()`
  with a stored product, and neither then fails: lines 115-118 and 153-156 of
  `rover/autonomous_surface_mission.cpp` are not reached;
* counters that are only reported (statistics, power, temperature) are left out.

In `GroundIngest` sequence numbers are below 2^63. The store keeps an int64: a larger
number would come back negative, `LoadAll` would refuse it and `newService` panic, and
the service would not start again. In `CommandScheduler` a schedule that is created
again, after its first creation was not stored, is for the same command: the loop
submits the copy from the heap.

## The runs

| Run | Instance | Question |
| --- | --- | --- |
| `ground_ingest` | six records, one ID twice, ties, arrivals out of order; window of two IDs | do store, Kafka and served state agree, across deaths, failing INSERTs and restarts, and does the boundary keep its promise, `RecordBoundary`? |
| `command_pipeline` | two commands, queue of one slot, failing store, one restart | one run per command; records match the vehicle, for refused commands and for those that used all attempts; marks owned; a run that ended stays so; a command leaves its way only by a crash or one of three drops |
| `command_replay` | one command, two operators, unanswered INSERTs, one restart | does the path keep its promise, `CommandOutcome`, with replay and resolve at the same time and with redelivery? |
| `command_faults` | one command, one operator, duplicated and lost messages, unanswered INSERTs | is every mark dropped again, and the read model right about what arrived? |
| `command_decided` | two commands, room for both, nothing lost, a vehicle that answers as it likes | every accepted command is decided in the read model, and what it shows once all is consumed is the recorded outcome |
| `scheduler_plain` | two schedules of one command, two calls, one restart | pending schedules survive, DISPATCHED means stored, nothing early |
| `scheduler_settles` | two schedules (one invalid), one call, all faults, one restart | heap and map agree; every schedule is settled |
| `flight_segment` | the C++ components side by side, see below | one property or two per component, each over calls, resets, failures and limits |
| `replay_runs`, `resolve_stays`, `cancel_race`, `cancel_restart` | smallest that shows it | statements of the service's README that the code does not keep |

Bounds. `MaxAttempts = 2` has a first, a retried and an exhausted attempt; the
code's default 3 adds another middle one. One worker is what `main` starts; a
queue of one slot is full with two commands. One restart separates every pair of
steps, and the interesting state after it (rows without memory) does not become
richer with a second. Two operators are the least that interleave two calls on
one entry. A window of two IDs overflows after three records. The scheduler's
record number needs two values to collide, and `MaxNumber` bounds only how many
calls a process may start. Schedules created for a time just past (`Grace`) are in
`scheduler_settles`.

`flight_segment`. The components of `MCFlightSegment` share no state. A behaviour
picks one of them as its *campaign* and runs it while the others stand, so the
states of the run are the sum of theirs and not the product, and one run asks
every component its question. No behaviour is lost: every safety property of it
speaks of one component. `CHECK_DEADLOCK FALSE`, since campaigns end (a route is
found, a mission is complete, a bound is reached). The instances, and why they are
enough:

| Campaign | Instance | What happens in it |
| --- | --- | --- |
| `telemetry`, `event`, `command` | two streams, two subjects, gaps of packets that do not parse, an ID under two numbers and a number under two IDs; queue of 1, archives of 2 | loss, repetition, reordering, full queue and archives, clearing |
| `round trip` | 7 packets at the station, 5 records: less than two commands' | commands that apply and that are refused, in turns, with resets and a full pipeline in the middle of a report |
| `closed loop` | cycles of 2 of 7 commands, archives of 2 events and 10 records (6 a report) | safe mode, a failed command before another, reports that are refused in the middle, reset |
| `bridge` | 2 calls of 2 commands, one line beyond one each | a timeout and the reader it leaves behind, a torn buffer, a request cut in two whose second answer the next call gets; a process that ends before a call |
| `runtime` | phases of 1 or 2 steps, 3 changes of control, 8 steps, 2 burns of each stage | whole missions event-driven and by timers, exceptions, retried stages |
| `uplink` | 2 metrics, 3 steps, 2 processes | every failure of a POST, within a step and across processes |
| `downlink` | 3 metrics, archive of 8 | an archive that fills in the middle of the third step, as 8192 records do with 11 metrics; resets |
| `timeline` | steps of 1, 3, 4 or 9, phases of 1, 4 or 6 quarters | steps shorter than, as long as and longer than a phase |
| `navigation` | 3 control steps, obstacle at step 1, 2 or never, its flag set or not | every combination of sights and disturbances in a step, from every mode |
| `relay` | 2 targets, 2 sequence numbers, 2 products | two products under one ID, every save that stops half-way, retries |
| `survey` | 2 targets, energy for two, for one or for none, 2 calls | deliveries that fail at each save, files left of the first mission |
| `route` | 3 by 3 cells, penalties 1 or 3 by column, closed columns, obstacles of every place of radius 0 and 1 | detours, straight and diagonal, and grids without a route |

The constants of the code are larger, but none of the components has a case that
appears only with a third stream, burn, process or save: what matters is below,
at and above a capacity, before, at and after a duration, and what is met again.
`MaxControl`, `MaxTelemetry`, `MaxBurns`, `MaxTicks`, `MaxLaunches`, `MaxCalls`, `MaxSurplus`,
`MaxFeedback`, `MaxSimulated`, `MaxDownlinkTicks`, `MaxSurfaceSteps`, `MaxRuns`,
`MaxEditions` and `MaxAcquired` bound counters the code does not bound;
`MaxLegSteps` is the code's `max_control_steps`.

Each property is in one run, the one whose instance can break it best. Those that
`command_replay` and `command_faults` could check too (`SingleRun`,
`OutcomeMatchesVehicle`, `InFlightOwned`, `EndedRunsAreFinal`) are proved for every
instance. `AcceptedIsDurable`, `PublishedAtMostOnce` and `WindowBounded` of `GroundIngest`
are proved and in no run: the first two are part of what `RecordBoundary` promises.
`ReadModelSettles` allows duplicated messages; `command_decided`, which checks it, has
two commands and none, since with both the state space is too large for its liveness
property. The order in which the two partitions are read is in the run, the duplicates
are in the theorem only.

What the passing properties say is in places less than one would wish, because the
code does less; the properties state the line exactly:

* every acknowledgement of the round trip carries the same sequence number; only
  the telemetry of an applied command moves the stream past it. After a command
  the spacecraft refused, every further one ends in `GroundReceptionFailed`,
  whether it moved the spacecraft or not: `RoundTripTells` claims of that status
  nothing about movement;
* an answer of the bridge may be taken for that of a later command, after a request
  that a line feed cut in two: `AnswersInOrder` bounds by how much. Once a call was
  made while an earlier one's reader was still in the buffer, which needs a timeout,
  it claims only that no answer is early;
* a command that is refused is dead-lettered after its first attempt, while
  README.md:78 of the service speaks of retryable failures that are exhausted; the
  entry's `attempts` is the policy's `MaxAttempts` in both cases.
  `OutcomeMatchesVehicle` and `CommandOutcome` state the two ways to fail. Which refusals
  are meant is a matter of the words: none of the statuses that
  `vehicle_command_bridge.cpp` writes (lines 55-63) is one of the four that are not
  retried, so with the bridge of the repository an unsupported command
  (UNSUPPORTED_TARGET) or an invalid one is asked `MaxAttempts` times, although
  README.md:47 says that they are not retried;
* the uplink's record IDs start again with its process, and the ground refuses
  them until they pass the old ones: `UplinkTells` holds because a refusal counts
  as rejected;
* nobody empties the archive of the telemetry loop: `DownlinkShowsTheStep` is about
  the time before it is full, and says that nothing else loses a packet;
* a relay that was stopped between Vikram and the ground calls every retry a
  duplicate: `ScienceReachesGround` shows that it never claims the hop, and
  `SurveyTells` that the target does not count.

Fairness. `command_faults` and `command_decided` assume that goroutines which can
run do (weak fairness of the consumer's, a worker's and a replay's steps) and that
an `Execute` ends: it has a deadline. Neither new commands nor requests nor
restarts are fair. `scheduler_settles` adds that time passes and that the ticker's
fresh ticks are read again and again (strong fairness of `Tick(clock)`: a tick may
wait in the channel, but only one). `CHECK_DEADLOCK FALSE` stands where
the path may be finished: all commands decided, all dead letters resolved.

What the violations show:

* **replayed commands never reach the vehicle** (`replay_runs`): `execute`
  emits `<command>-queued` again, a duplicate, and gives up;
* **a resolved entry turns REPLAYED** (`resolve_stays`): `Replay` writes a copy
  it took before;
* **a cancelled schedule is dispatched** (`cancel_race`): `dispatchDue`
  unlocks between its check and `Submit`;
* **a cancellation is forgotten** (`cancel_restart`): record numbers start again
  at 0, the record of `Cancel` has the ID of a stored one and the duplicate
  counts as persisted.

## The proofs

For every value of the constants that meets the modules' `ASSUME`s.

`GroundIngestProofs`. The inductive invariant is the conjunction of the
boundary's invariants with what they rest on: what the memory holds is
derived from the known rows only (`Known == store \ unanswered`), published
counts are at most one and positive only for stored rows. The window alone
would not do: it forgets, so at-most-once rests on the store's key. From it:
type correctness, durability of what is acknowledged, the served state as the
one a rebuild gives, and that a restart takes nothing back.

Its last part is the refinement of `RecordBoundary` by the store, the publisher and
the answers (`BoundaryImplemented`). One step counts, the one in which a row is
stored: it is an accepted call, a death after the INSERT, or an INSERT whose answer
is lost (`RowSettles`), and the store's key says that the ID is new. Every other
step stutters (`StepsMap`). What the abstract boundary keeps holds of the
detailed one: `ToldOnce` and `NothingMakesUp`. The window's bound is an invariant
of its own (`WindowSafe`).

`CommandPipelineProofs`. `TypeOK` is not inductive: while the consumer is inside
`Submit` its message must still be there (`ReadingOK`), and a worker or a call
that is not idle holds a command (`HeldOK`). `TInv` adds the two. `NextTInv` has
one lemma per group of actions; `IngestTInv` and `StoredTInv` are shared by all
that emit records.

Its second half proves `InFlightOwned`, which is inductive with `TInv`. An owner
hands a mark on (`Take`, `Send`) or takes it away (`Finish`, `ReplayReset`, a
full queue); the one subtle part is that the message the consumer has in hand
stays first in its partition while others publish (`HeadKept`).

`CommandPipelineSafety` proves `SingleRun` and `OutcomeMatchesVehicle`. Neither
is inductive: that a run may ask the vehicle once more depends on what earlier
runs did, before restarts too. The strengthening `RunInv` says why it may. The
store takes a command's QUEUED record once, and only the run whose record it
took goes on; before that record there are no attempts (`CommandOK`). Inside
the run `attempts` follows the worker's loop counter (`RunOK`), and no two
workers are inside runs of one command (`OwnRuns`). A failure record or a
dead-letter entry means the attempts are used up or the vehicle refused
(`Exhausted`), which nothing undoes, so whatever operators do with the entry starts
no second run. That a TIMEOUT is not recorded of a refused command rests on what the
worker's last failure was (`TimeoutsOK`). The
orchestrator's own maps, which a restart or a replay empties, are not needed.

Its second half proves `ImplementsOutcome`. Beside `RunInv` it needs
the order of records (`OrderInv`): RECEIVED is stored before anything of the
command is published, queued or run, and SENT before the vehicle is asked.
`RecordStep` is the heart: one more record changes its command's phase as
`CommandOutcome` allows, or not at all.

Its last part proves the action property `EndedRunsAreFinal` from `OrderInv`. Once
QUEUED is stored and no worker is inside the run, whoever takes the command again
is refused at that record before anything else; all other records are stored by
a worker inside the run, except RECEIVED, which is stored already. So a crash in
the middle of a run leaves what it left, whatever is delivered or replayed later.

`CommandPipelineReads` proves `ReadModelAgrees`, `ReadModelSettles` and
`NoCommandSlipsAway`. `ReadInv` rests on `RunInv` and
follows a record through every copy of it: what a message, a log or the stored
records of a command say is recorded (`Said`, `LogTrue`, `ExecTrue`), so the read
model has no outcome that no record states. `ReadModelSettles` is
about the time in which nothing was lost (`Calm`): then the records under way, those
in a log and the one a worker is about to store, follow the read model in the
order of the transition table (`Underway`, `InTurn`), so none is refused and the
last one applied is the last one stored; and a command has one outcome
(`OneOutcome`), the one its run stored (`RunsStore`) or, for a dead letter, the
one its entry tells (`DeadLettersTrue`).

`NoCommandSlipsAway` says which steps may take an accepted command off its way to
a run, and the proof that no others do needs three facts. A RECEIVED message
that an attached orchestrator reads gets as far as `Submit`, since the engine knows
the command (`EngineOK`). `Submit` passes over a command that is in flight, and the
owner of the mark is then further on that way (`InFlightOwned` again). And it passes
over one with a terminal entry, which a command has only after its RECEIVED record
was stored (`TerminalKnown`), so none has it when it sets out, and which a worker
writes only for a command whose QUEUED record is stored or could not be.

`CommandSchedulerProofs`. `TypeOK` is not inductive: an entry that is stored must
have a state and a time, so whoever is inside a handler holds a schedule and a
copy of its entry (`HoldersOK`), and a pending schedule has a time
(`PendingTimed`). `HeapCoversPending` rests on two lemmas about the heap:
trimming takes no live entry (`TrimKeepsLive`, from which `CoverKept` for every
change of the map), and the top of a trimmed heap is live (`TopIsLive`), which is
also why the loop never takes up a cancelled schedule (`CancelHolding`).
`OnlyStoredDispatched` and `NoEarlyDispatch` assume what the run assumes of the
boundary: the first that it stores what it is given, the second that nothing
fails. Their invariants (`StoredInv`, `EarlyInv`) follow an outcome through
every copy: map, loop, row, and back by a rebuild. With failures the second is
false: a creation that fails deletes the schedule the loop has in hand, and
another creation may give it a later time. So does
`PendingSurvivesRestart`, the theorem `PendingComesBack`. `RestartInv` says why
record numbers that start again do no harm to a pending schedule: it is created
once and has at most one row that says SCHEDULED (`CreatedOnce`), nobody but its
creator holds it while it is pending, unchanged and without a row (`HeldPending`),
so the row of its creation is stored as it is and stays the only one; whoever
holds a schedule after that settles it, whatever becomes of his row.

`VehicleLinkProofs`, the link between ground and vehicle.

* Station and pipelines: `ReceiptInv` relates each pipeline's tables to the
  history of what it accepted: the last number of a stream bounds the accepted
  ones, and a command accepted is in the table of IDs. A packet older than the
  stream's last never gets as far as the table, so current values do not go back
  and a recovered fault stays out; the history of commands is a sequence, in the
  order of the last numbers.
* Round trip (`RoundTripAnswersTell`): no row of the ground is ahead of
  the simulation, and none is older than the rows reported after it (`RowsTell`);
  a call is followed frame by frame, and `Applied` needs its three reports
  accepted, so they show the new state.
* Closed loop (`FeedbackIsTheVehicle`, `TheLogicIsObeyed`): the adapter's snapshot
  is the rover whenever nobody is inside a call, and an answer `Applied` has put
  all six metrics into the table.
* Bridge (`BridgeAnswersInOrder`): no line in the pipes or the buffer is for a later
  call (`NeverEarly`), which holds of a torn buffer too. Until it is torn there is at
  most one reader (`ReaderAlone`), and the lines in the pipes are in the order of the
  calls, at most one for the reader and the surplus (`PipeInStep`): the one at its
  head is late by the surplus at most.

`FlightProofs`, the flight.

* Runtime: `RuntimeInv` adds to the types that a stage done has burned, and that an
  event-driven mission of which a stage burned is in the lunar orbit
  (`StagesDone`). With it, the action property that stages burn in their order and
  not again once done, and that the mission stays in the orbit; `ControlTells`
  needs the types only.
* Uplink (`UplinkCountsWhatIsStored`): a record the ground has comes before the
  next one due in launch, step and metric (`BeforeDue`), from which their order.
* Timeline (`RoverIsWhereTheMissionIs`): how far the rover is in each phase.
* Downlink (`DownlinkShowsOneStep`): `DownlinkInv` says where numbering, station,
  archive and counters stand between two steps, `Posting` after m metrics of a
  step; publishing the next one keeps it. `TelemetryLoop` publishes by a recursive
  function on the number of metrics. A recursive function is a CHOOSE: the proof
  shows that a function with these equations exists, by its smallest
  counterexample, and then unfolds it. The smallest natural number of a set comes
  from the library's `NatLessThanWellFounded` and `WFMin`, so this induction needs
  no theorem with an operator as a parameter.

`RoverProofs`, the surface.

* A leg (`LegEndsAsItTells`): between two rules of a control step a leg goes on or
  has ended in one of four ways (`Fit`), and an online replan knew the obstacle and
  told of it if it was active (`OnlineSound`); each rule of `RoverLeg` keeps that. So
  a leg ends in one of the ways among which `SurfaceMission` chooses
  (`LegEndsAsSurveyTakesIt`).
* Relay (`GroundHasWhatVikramHas`): what the ground has of a product is
  what Vikram has, what was analysed is what the ground has (`FilesAgree`), and
  the report claims no more (`ReportRight`); a hop touches one archive, whose
  file is then new, as before, or gone.
* Survey (`SurveyCountsWhatArrived`): what a counted target left in the archives is
  touched by no later iteration (`Counted`), and the counter is the number of them.
* Route (`RouteFoundIsCheapest`): the argument for A* that closes a cell for good.
  The estimate is consistent: one step changes it by no more than the step costs
  (from what `StraightLine` is, a rounded root). Then cells are closed in the order
  of their estimates (`ClosedInOrder`), a closed cell's cost is final, it has
  shown its neighbours the way over itself (`NeighboursShown`), every cell of the
  fringe waits in the queue at its cost among dearer old entries (`QueueHolds`),
  and the parents lead back (`ParentsLead`). A way to the goal leaves the closed
  cells through the fringe, and is no cheaper up to there; by induction along the
  way, on `Ways` and `WayCost` unfolded as above.

Where a proof did not go through, the model was looked at again. It was corrected
in these places:

* the planner's estimate: rounded from the square root of 100 times the squares
  while a diagonal costs 14, it overestimates on grids nine cells wide, which
  the run's grid does not show. The code's estimate and costs are both exact; in
  tenths the square is 98. A cell that was not met had a large number as its cost,
  too small for long ways; now it is infinitely far, as in the code;
* conditions of CASE that overlap, of which TLC takes the first and a proof any:
  `GroundStages`, `VehicleCommands`, `CommandRoundTrip` and `ClosedLoop` test in
  the order of the code with IF;
* a SET_MODE carries a mode or none (`CommandType`), as the parameters the callers build;
* assumptions on constants that were missing: finite `Sites`, bounds that are
  natural numbers, at least one launch, more than one metric and packet in the
  telemetry loop (the code has 11 metrics and an archive of 8192).

Only model-checked: the three liveness properties `EveryCommandDecided`,
`InFlightEnds` and `DueIsSettled` (fairness and ENABLED are beyond the prover), and
the conjunction `ComponentTypesOK`, of which every component's part is a theorem.
Every other property of a passing run is a theorem, under the assumptions named
above. The proofs say nothing about two links between modules that are argued in
"How they fit": that the emissions of `CommandPipeline` and `CommandScheduler` are
calls of the boundary `RecordBoundary` describes, and that an `Execute` is one step.

## Not modelled, and the plan

Left out for good: floating-point flight, landing, maneuver, guidance, estimation
and physics code (sequential, out of an explicit-state checker's reach); the
scores of planners and instruments, and the lookup tables of the mission's data
(pure functions of one call); views and HTTP plumbing; the UI; the websocket and
Redis copies (best effort); the JSON-lines store (development builds); the
classification of single records in the event, telemetry and science engines.

Left for later, in this order:

1. `MissionAlerts`: event-driven alerts against acknowledge and clear requests and
   the restoration from records.
2. `MissionState`: the sequence guards, and `ReplaceMission` against live `Apply`.
3. The runtime bridge in Go: its ticker against requests, on top of
   `MissionRuntime`, which takes requests in any order.
4. Theorems: those two links, as refinements: the boundary inside `CommandPipeline`
   and `CommandScheduler` of `RecordBoundary`, and `Execute` by `VehicleBridge`.
