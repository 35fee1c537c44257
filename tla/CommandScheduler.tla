--------------------------- MODULE CommandScheduler ---------------------------
(***************************************************************************)
(* CommandScheduler of the ground data service: schedules are created and   *)
(* cancelled by HTTP requests and dispatched by one polling goroutine; every *)
(* change is stored as a COMMAND_SCHEDULE record after the lock is released, *)
(* and the schedules are rebuilt from those records at start-up.            *)
(* Time is a small clock.  MissionCommandDispatcher.Submit and              *)
(* Service.Ingest are the boundary of module GroundIngest in brief.         *)
(***************************************************************************)
EXTENDS Integers, FiniteSets

CONSTANTS
    Schedules,       \* schedule IDs, numbers: the heap orders ties by ID
    Commands,        \* command IDs
    CommandOf(_),    \* the command a schedule is for
    Invalid,         \* schedules whose command Submit rejects (a field over 4096 bytes)
    Operators,       \* HTTP calls under way at once
    MaxTime,         \* bound on the clock
    Grace,           \* how far in the past scheduled_at may lie
    MaxNumber,       \* bound on the records Create may start
    MaxCrashes,      \* bound on restarts
    Faults           \* of "store", "answer", "forget": what may go wrong in Ingest

ASSUME SchedulerAssumption ==
    /\ Schedules \subseteq Nat \ {0} /\ Invalid \subseteq Schedules
    /\ \A s \in Schedules : CommandOf(s) \in Commands
    /\ MaxTime \in Nat \ {0} /\ Grace \in Nat /\ MaxNumber \in Nat /\ MaxCrashes \in Nat

VARIABLES
    rows,        \* stored COMMAND_SCHEDULE records
    commands,    \* commands stored by Submit
    crashes, clock,
    schedules,   \* CommandScheduler.schedules
    pending,     \* CommandScheduler.pending; two equal heap entries act as one
    seq,         \* CommandScheduler.seq
    lpc, tick, lcur, lentry,     \* the goroutine of loop: its place, tick, schedule and copy
    opc, oid, oentry             \* a Create or Cancel call: its place, schedule and copy

storeVars == <<rows, commands>>
mapVars   == <<schedules, pending>>
loopVars  == <<lpc, tick, lcur, lentry>>
callVars  == <<opc, oid, oentry>>
vars == <<storeVars, crashes, clock, mapVars, seq, loopVars, callVars>>

States   == {"SCHEDULED", "DISPATCHED", "CANCELLED", "EXPIRED"}
Times    == 1 .. MaxTime
\* at = 0 in a DISPATCHED or EXPIRED entry: Go's zero value, of a schedule deleted meanwhile.
Entries  == [state : States \union {"none"}, at : 0 .. MaxTime, updated : 0 .. MaxTime]
NoSchedule == [state |-> "none", at |-> 0, updated |-> 0]
Rows     == [id : Schedules, n : Nat, state : States, at : Times, updated : Times]
HeapEntries == [id : Schedules, at : Times]

Exists(s)      == schedules[s].state # "none"
IsScheduled(s) == schedules[s].state = "SCHEDULED"

-----------------------------------------------------------------------------
(* The heap.  removeStaleHeapTopLocked pops tops until one is live. *)
LiveWhenEqual(f, e) ==              \* mutant: the state is not looked at
    f[e.id].state # "none" /\ f[e.id].at = e.at

LiveWhenDue(f, e) ==                \* mutant: entries of the future are dropped
    f[e.id].state = "SCHEDULED" /\ f[e.id].at = e.at /\ e.at <= clock

Live(f, e) == f[e.id].state = "SCHEDULED" /\ f[e.id].at = e.at

Before(e, d) == e.at < d.at \/ (e.at = d.at /\ e.id < d.id)

\* What is left of heap h: the entries that do not come before every live one.
Trimmed(f, h) == {e \in h : \E d \in h : Live(f, d) /\ ~Before(e, d)}

IsTop(h, e) == e \in h /\ \A d \in h : d = e \/ Before(e, d)

\* The map becomes f and refreshLocked trims heap h.
SetSchedules(f, h) == schedules' = f /\ pending' = Trimmed(f, h)

PendingWhenDue(f) ==                \* mutant: only what is due is put into the heap
    {[id |-> s, at |-> f[s].at] : s \in {x \in Schedules : f[x].state = "SCHEDULED" /\ f[x].at <= clock}}

PendingOf(f) == {[id |-> s, at |-> f[s].at] : s \in {x \in Schedules : f[x].state = "SCHEDULED"}}

-----------------------------------------------------------------------------
(* rebuild keeps the record updated last.  Two records of a schedule with   *)
(* the same clock value stand for two instants, the later state's after.    *)
UpdatedAfter(q, r) ==
    \/ q.updated > r.updated
    \/ /\ q.updated = r.updated /\ r.state = "SCHEDULED"
       /\ q.state # "SCHEDULED" \/ q.n > r.n

RowsOf(s) == {r \in rows : r.id = s}

Newest(s) == {r \in RowsOf(s) : \A q \in RowsOf(s) : ~UpdatedAfter(q, r)}

Rebuilt(s) ==
    IF RowsOf(s) = {} THEN {NoSchedule}
    ELSE {[state |-> r.state, at |-> r.at, updated |-> r.updated] : r \in Newest(s)}

(* persist: seq.Add(1) is one step, seq.Load() and Ingest another.  The     *)
(* record of a zero value has an empty schedule ID.                         *)
Row(s, entry) == [id |-> s, n |-> seq, state |-> entry.state, at |-> entry.at, updated |-> entry.updated]

KnownNumber(s) == \E r \in rows : r.n = seq      \* mutant: the ID is the number alone

Known(s) == \E r \in RowsOf(s) : r.n = seq

PersistedZero(s, entry) ==          \* mutant: the zero value keeps the schedule's ID
    rows' = IF Known(s) THEN rows ELSE rows \union {Row(s, entry)}

\* persist returns nil, for a new record and for a duplicate.
Persisted(s, entry) ==
    rows' = IF entry.at = 0 \/ Known(s) THEN rows ELSE rows \union {Row(s, entry)}

\* persist returns an error: the window forgot the ID and the key is violated, the
\* row is not stored, or it is and the answer is lost.
PersistFails(s, entry) ==
    \/ "forget" \in Faults /\ Known(s) /\ UNCHANGED rows
    \/ "store" \in Faults /\ UNCHANGED rows
    \/ "answer" \in Faults /\ Persisted(s, entry)

-----------------------------------------------------------------------------
Init ==
    /\ rows = {} /\ commands = {} /\ crashes = 0 /\ clock = 1
    /\ schedules = [s \in Schedules |-> NoSchedule] /\ pending = {} /\ seq = 0
    /\ lpc = "idle" /\ tick = 1 /\ lcur = 0 /\ lentry = NoSchedule
    /\ opc = [o \in Operators |-> "idle"]
    /\ oid = [o \in Operators |-> 0]
    /\ oentry = [o \in Operators |-> NoSchedule]

Advance ==
    /\ clock < MaxTime
    /\ clock' = clock + 1
    /\ UNCHANGED <<storeVars, crashes, mapVars, seq, loopVars, callVars>>

\* The process dies at any point; NewCommandScheduler and rebuild follow.
Crash ==
    /\ crashes < MaxCrashes
    /\ crashes' = crashes + 1
    /\ schedules' \in [Schedules -> UNION {Rebuilt(s) : s \in Schedules}]
    /\ \A s \in Schedules : schedules'[s] \in Rebuilt(s)
    /\ pending' = PendingOf(schedules')
    /\ seq' = 0
    /\ lpc' = "idle" /\ tick' = clock /\ lcur' = 0 /\ lentry' = NoSchedule
    /\ opc' = [o \in Operators |-> "idle"]
    /\ oid' = [o \in Operators |-> 0]
    /\ oentry' = [o \in Operators |-> NoSchedule]
    /\ UNCHANGED <<storeVars, clock>>

-----------------------------------------------------------------------------
(* Create and Cancel: the map and the heap under the lock, persist after it. *)
Create(o, s, at) ==
    LET entry == [state |-> "SCHEDULED", at |-> at, updated |-> clock] IN
    /\ opc[o] = "idle" /\ seq < MaxNumber
    /\ at + Grace >= clock
    /\ ~Exists(s)
    /\ \A x \in Schedules : CommandOf(x) = CommandOf(s) => ~IsScheduled(x)
    /\ SetSchedules([schedules EXCEPT ![s] = entry], pending \union {[id |-> s, at |-> at]})
    /\ opc' = [opc EXCEPT ![o] = "create"]
    /\ oid' = [oid EXCEPT ![o] = s]
    /\ oentry' = [oentry EXCEPT ![o] = entry]
    /\ UNCHANGED <<storeVars, crashes, clock, seq, loopVars>>

Cancel(o, s) ==
    LET entry == [schedules[s] EXCEPT !.state = "CANCELLED", !.updated = clock] IN
    /\ opc[o] = "idle"
    /\ IsScheduled(s)
    /\ SetSchedules([schedules EXCEPT ![s] = entry], pending)
    /\ opc' = [opc EXCEPT ![o] = "cancel"]
    /\ oid' = [oid EXCEPT ![o] = s]
    /\ oentry' = [oentry EXCEPT ![o] = entry]
    /\ UNCHANGED <<storeVars, crashes, clock, seq, loopVars>>

CallNumber(o) ==
    /\ opc[o] \in {"create", "cancel"}
    /\ seq' = seq + 1
    /\ opc' = [opc EXCEPT ![o] = IF @ = "create" THEN "storeCreate" ELSE "storeCancel"]
    /\ UNCHANGED <<storeVars, crashes, clock, mapVars, loopVars, oid, oentry>>

Return(o) ==
    /\ opc' = [opc EXCEPT ![o] = "idle"]
    /\ oid' = [oid EXCEPT ![o] = 0]
    /\ oentry' = [oentry EXCEPT ![o] = NoSchedule]
    /\ UNCHANGED <<commands, crashes, clock, seq, loopVars>>

StoreCreated(o) ==
    /\ opc[o] = "storeCreate"
    /\ Persisted(oid[o], oentry[o])
    /\ Return(o) /\ UNCHANGED mapVars

\* Create takes back whatever the map holds for its schedule by now.
CreateFails(o) ==
    /\ opc[o] = "storeCreate"
    /\ PersistFails(oid[o], oentry[o])
    /\ SetSchedules([schedules EXCEPT ![oid[o]] = NoSchedule], pending)
    /\ Return(o)

\* Cancel reports the error and changes nothing more.
StoreCancelled(o) ==
    /\ opc[o] = "storeCancel"
    /\ Persisted(oid[o], oentry[o]) \/ PersistFails(oid[o], oentry[o])
    /\ Return(o) /\ UNCHANGED mapVars

-----------------------------------------------------------------------------
(* loop and dispatchDue.  A tick may have waited in the ticker's channel.   *)
Tick(t) ==
    /\ lpc = "idle"
    /\ lpc' = "look" /\ tick' = t
    /\ UNCHANGED <<storeVars, crashes, clock, mapVars, seq, lcur, lentry, callVars>>

DueByClock(e) == TRUE               \* mutant: the time of the top is not compared

Due(e) == e.at <= tick

TakeDueMarks(e) ==                  \* mutant: the state is changed before Submit
    /\ lpc = "look"
    /\ IsTop(Trimmed(schedules, pending), e) /\ Due(e)
    /\ pending' = Trimmed(schedules, pending) \ {e}
    /\ schedules' = [schedules EXCEPT ![e.id].state = "DISPATCHED"]
    /\ lpc' = "submit" /\ lcur' = e.id
    /\ UNCHANGED <<storeVars, crashes, clock, seq, tick, lentry, callVars>>

\* The popped entry is live: nothing happens between the trim and the pop.
TakeDue(e) ==
    /\ lpc = "look"
    /\ IsTop(Trimmed(schedules, pending), e) /\ Due(e)
    /\ pending' = Trimmed(schedules, pending) \ {e}
    /\ lpc' = "submit" /\ lcur' = e.id
    /\ UNCHANGED <<storeVars, crashes, clock, schedules, seq, tick, lentry, callVars>>

NothingDue ==
    LET h == Trimmed(schedules, pending) IN
    /\ lpc = "look"
    /\ \A e \in h : IsTop(h, e) => ~Due(e)
    /\ pending' = h
    /\ lpc' = "idle"
    /\ UNCHANGED <<storeVars, crashes, clock, schedules, seq, tick, lcur, lentry, callVars>>

\* Without the lock.  A command the boundary refuses is no error of Submit.  What is
\* submitted is the heap's copy: a schedule that is created again, because its first
\* creation was not stored, is for the same command here (CommandOf).
Submit ==
    /\ lpc = "submit"
    /\ IF lcur \in Invalid
       THEN lpc' = "expire" /\ UNCHANGED commands
       ELSE /\ lpc' = "dispatch"
            /\ \/ commands' = commands \union {CommandOf(lcur)}
               \/ "store" \in Faults /\ UNCHANGED commands
    /\ UNCHANGED <<rows, crashes, clock, mapVars, seq, tick, lcur, lentry, callVars>>

\* The entry is read again, but its state is overwritten whatever it is.
Settle ==
    LET entry == [schedules[lcur] EXCEPT !.state = IF lpc = "expire" THEN "EXPIRED" ELSE "DISPATCHED",
                                         !.updated = tick] IN
    /\ lpc \in {"expire", "dispatch"}
    /\ SetSchedules([schedules EXCEPT ![lcur] = entry], pending)
    /\ lentry' = entry
    /\ lpc' = "number"
    /\ UNCHANGED <<storeVars, crashes, clock, seq, tick, lcur, callVars>>

LoopNumber ==
    /\ lpc = "number"
    /\ seq' = seq + 1 /\ lpc' = "store"
    /\ UNCHANGED <<storeVars, crashes, clock, mapVars, tick, lcur, lentry, callVars>>

\* Whether persist failed is ignored.
StoreSettled ==
    /\ lpc = "store"
    /\ Persisted(lcur, lentry) \/ PersistFails(lcur, lentry)
    /\ lpc' = "look" /\ lcur' = 0 /\ lentry' = NoSchedule
    /\ UNCHANGED <<commands, crashes, clock, mapVars, seq, tick, callVars>>

-----------------------------------------------------------------------------
Call(o) == CallNumber(o) \/ StoreCreated(o) \/ CreateFails(o) \/ StoreCancelled(o)

Dispatching ==
    \/ \E e \in pending : TakeDue(e)
    \/ NothingDue \/ Submit \/ Settle \/ LoopNumber \/ StoreSettled

Next ==
    \/ Advance \/ Crash \/ Dispatching
    \/ \E t \in tick .. clock : Tick(t)
    \/ \E o \in Operators :
         \/ Call(o)
         \/ \E s \in Schedules : Cancel(o, s) \/ \E at \in Times : Create(o, s, at)

Spec == Init /\ [][Next]_vars

\* Time passes and goroutines that can run do.  A tick that waited is followed by
\* a fresh one, so the loop does not read old times for ever.
Fairness ==
    /\ WF_vars(Advance) /\ SF_vars(Tick(clock)) /\ WF_vars(Dispatching)
    /\ \A o \in Operators : WF_vars(Call(o))

FairSpec == Spec /\ Fairness

-----------------------------------------------------------------------------
StoreTypeOK ==
    /\ rows \subseteq Rows
    /\ commands \subseteq Commands
    /\ crashes \in Nat /\ clock \in Times

MapTypeOK ==
    /\ schedules \in [Schedules -> Entries]
    /\ pending \subseteq HeapEntries
    /\ seq \in Nat

LoopTypeOK ==
    /\ lpc \in {"idle", "look", "submit", "expire", "dispatch", "number", "store"}
    /\ tick \in Times /\ lcur \in Schedules \union {0} /\ lentry \in Entries

CallTypeOK ==
    /\ opc \in [Operators -> {"idle", "create", "cancel", "storeCreate", "storeCancel"}]
    /\ oid \in [Operators -> Schedules \union {0}]
    /\ oentry \in [Operators -> Entries]

TypeOK == StoreTypeOK /\ MapTypeOK /\ LoopTypeOK /\ CallTypeOK

(* Stale heap entries are dropped only at the top, entries are pushed before *)
(* their record is stored and taken back when that fails: a SCHEDULED       *)
(* schedule is still in the heap at its time, or the loop holds it.         *)
HeapCoversPending ==
    \A s \in Schedules :
        IsScheduled(s) =>
            \/ [id |-> s, at |-> schedules[s].at] \in pending
            \/ lcur = s /\ lpc \in {"submit", "expire", "dispatch"}

(* Numbers start again at 0 after a restart and two calls may take the same *)
(* one, and a duplicate counts as stored: a SCHEDULED schedule whose Create *)
(* was answered still comes back from a restart as it is.                   *)
PendingSurvivesRestart ==
    \A s \in Schedules :
        IsScheduled(s) /\ (\A o \in Operators : oid[o] # s) => Rebuilt(s) = {schedules[s]}

(* While the boundary stores what it is given, DISPATCHED means the command *)
(* exists, whoever changed the schedule while the loop was without the lock. *)
DispatchedIsStored ==
    \A s \in Schedules : schedules[s].state = "DISPATCHED" => CommandOf(s) \in commands

(* No schedule becomes DISPATCHED before its time, in whatever order the    *)
(* heap, cancellations and late ticks come.                                 *)
NeverEarly ==
    [][\A s \in Schedules :
        schedules[s].state # "DISPATCHED" /\ schedules'[s].state = "DISPATCHED"
          => schedules'[s].at <= clock]_vars

(* Until the next restart a cancelled schedule keeps its state unless the   *)
(* loop had taken it before: its entry is left in the heap and comes to the *)
(* top, but the loop never takes it.                                        *)
CancelHolds ==
    [][\A s \in Schedules :
        schedules[s].state = "CANCELLED" /\ lcur # s /\ crashes' = crashes
          => lcur' # s /\ schedules'[s].state \in {"CANCELLED", "none"}]_vars

(* Every schedule is settled once its time has come, across restarts and    *)
(* failing stores, though only the top of the heap is looked at.            *)
DueIsSettled == \A s \in Schedules : IsScheduled(s) ~> ~IsScheduled(s)

(* README.md: the scheduler "support[s] cancellation before dispatch".  So   *)
(* the command of a schedule that was cancelled before its command was      *)
(* dispatched is not dispatched later.                                      *)
CancelPreventsDispatch ==
    [][\A s \in Schedules :
        schedules[s].state = "CANCELLED" /\ CommandOf(s) \notin commands
          => CommandOf(s) \notin commands']_vars

(* README.md: schedules are "restart-recoverable", "reconstructed on        *)
(* startup".  So a restart does not bring back as SCHEDULED a schedule      *)
(* whose cancellation was answered with success.                            *)
CancelSurvivesRestart ==
    (\A o \in Operators : opc[o] = "idle") =>
        \A s \in Schedules : schedules[s].state = "CANCELLED" =>
            \A e \in Rebuilt(s) : e.state # "SCHEDULED"
=============================================================================
