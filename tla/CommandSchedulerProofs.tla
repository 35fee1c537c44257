----------------------- MODULE CommandSchedulerProofs -----------------------
(***************************************************************************)
(* Proofs about CommandScheduler, for any schedules, calls, faults and     *)
(* restarts: its types, that the heap loses no pending schedule and that a *)
(* cancelled schedule is left alone; and, for a boundary that works, that  *)
(* nothing is dispatched early or without being stored and that a pending  *)
(* schedule comes back from every restart.                                 *)
(***************************************************************************)
EXTENDS CommandScheduler, TLAPS

\* What TypeOK rests on: whoever is inside a handler holds a schedule and a
\* copy of its entry, and a pending schedule has a time.
HoldersOK ==
    /\ lpc \notin {"idle", "look"} => lcur \in Schedules
    /\ lpc \in {"number", "store"} => lentry.state \in States /\ lentry.updated \in Times
    /\ \A o \in Operators : opc[o] # "idle" =>
          oid[o] \in Schedules /\ oentry[o].state \in States /\ oentry[o].updated \in Times

PendingTimed == \A s \in Schedules : IsScheduled(s) => schedules[s].at \in Times

SInv == TypeOK /\ HoldersOK /\ PendingTimed

\* What a map of schedules is worth: MapOK(schedules) is half of MapTypeOK
\* together with PendingTimed.
MapOK(f) ==
    /\ f \in [Schedules -> Entries]
    /\ \A s \in Schedules : f[s].state = "SCHEDULED" => f[s].at \in Times
-----------------------------------------------------------------------------
(* Entries, rows and the heap *)

LEMMA NoScheduleTyped == NoSchedule \in Entries /\ NoSchedule.state = "none"
BY SchedulerAssumption DEF Entries, NoSchedule

LEMMA NumbersAreInts == Times \subseteq Int /\ Schedules \subseteq Int /\ MaxTime \in Nat
<1>1. MaxTime \in Nat /\ Schedules \subseteq Nat \ {0}
  BY SchedulerAssumption
<1>2. Times \subseteq Int
  BY <1>1 DEF Times
<1>3. Schedules \subseteq Int
  BY <1>1
<1> QED
  BY <1>1, <1>2, <1>3

\* Trimming the heap only takes entries out of it, and no live one.
LEMMA TrimKeepsLive ==
    ASSUME NEW f, NEW h, h \subseteq HeapEntries
    PROVE  /\ Trimmed(f, h) \subseteq h
           /\ \A e \in h : Live(f, e) => e \in Trimmed(f, h)
<1>1. ASSUME NEW e \in h PROVE ~Before(e, e)
  <2>1. e \in HeapEntries
    OBVIOUS
  <2>2. e.at \in Times /\ e.id \in Schedules
    BY <2>1 DEF HeapEntries
  <2>3. e.at \in Int /\ e.id \in Int
    BY <2>2, NumbersAreInts
  <2> QED
    BY <2>3 DEF Before
<1> QED
  BY <1>1 DEF Trimmed

\* The top of a trimmed heap is live.
LEMMA TopIsLive ==
    ASSUME NEW f, NEW h, h \subseteq HeapEntries, NEW e, IsTop(Trimmed(f, h), e)
    PROVE  Live(f, e)
<1>1. PICK d \in h : Live(f, d) /\ ~Before(e, d)
  BY DEF IsTop, Trimmed
<1>2. d \in Trimmed(f, h)
  BY <1>1, TrimKeepsLive
<1> QED
  BY <1>1, <1>2 DEF IsTop

LEMMA MapChanged ==
    ASSUME NEW f, MapOK(f), NEW h, h \subseteq HeapEntries, SetSchedules(f, h)
    PROVE  /\ schedules' \in [Schedules -> Entries]
           /\ pending' \subseteq HeapEntries
           /\ PendingTimed'
BY TrimKeepsLive DEF MapOK, SetSchedules, PendingTimed, IsScheduled

\* A row that persist stores is a row.
LEMMA PersistedTyped ==
    ASSUME rows \subseteq Rows, seq \in Nat, NEW s \in Schedules,
           NEW e \in Entries, e.state \in States, e.updated \in Times,
           Persisted(s, e) \/ PersistFails(s, e)
    PROVE  rows' \subseteq Rows
<1>1. CASE rows' = rows
  BY <1>1
<1>2. CASE rows' # rows
  <2>1. Persisted(s, e)
    BY <1>2 DEF PersistFails
  <2>2. e.at # 0 /\ rows' = rows \union {Row(s, e)}
    BY <1>2, <2>1 DEF Persisted
  <2>3. e.at \in Times
    BY <2>2, SchedulerAssumption DEF Entries, Times
  <2>4. Row(s, e) \in Rows
    BY <2>3 DEF Row, Rows
  <2> QED
    BY <2>2, <2>4
<1> QED
  BY <1>1, <1>2

LEMMA CopyTyped ==
    ASSUME SInv, NEW e \in Entries, e.state \in States, NEW u \in Times,
           NEW s \in Schedules, NEW o \in Operators, NEW pc \in {"create", "cancel"},
           opc' = [opc EXCEPT ![o] = pc], oid' = [oid EXCEPT ![o] = s],
           oentry' = [oentry EXCEPT ![o] = e], e.updated \in Times
    PROVE  /\ CallTypeOK'
           /\ \A p \in Operators : opc'[p] # "idle" =>
                 oid'[p] \in Schedules /\ oentry'[p].state \in States /\ oentry'[p].updated \in Times
BY DEF SInv, TypeOK, CallTypeOK, HoldersOK
-----------------------------------------------------------------------------
(* Types are kept by every step *)

LEMMA TypedInit == Init => SInv
<1> SUFFICES ASSUME Init PROVE SInv
  OBVIOUS
<1>1. 1 \in Times
  BY SchedulerAssumption DEF Times
<1>2. StoreTypeOK /\ MapTypeOK /\ LoopTypeOK /\ CallTypeOK
  BY <1>1, NoScheduleTyped DEF Init, StoreTypeOK, MapTypeOK, LoopTypeOK, CallTypeOK
<1>3. HoldersOK /\ PendingTimed
  BY NoScheduleTyped DEF Init, HoldersOK, PendingTimed, IsScheduled
<1> QED
  BY <1>2, <1>3 DEF SInv, TypeOK

LEMMA TypedAdvance == SInv /\ Advance => SInv'
<1> SUFFICES ASSUME SInv, Advance PROVE SInv'
  OBVIOUS
<1>1. clock \in Times /\ clock < MaxTime
  BY DEF SInv, TypeOK, StoreTypeOK, Advance
<1>2. clock' \in Times
  BY <1>1, NumbersAreInts DEF Advance, Times
<1> QED
  BY <1>2 DEF SInv, TypeOK, StoreTypeOK, MapTypeOK, LoopTypeOK, CallTypeOK, HoldersOK,
     PendingTimed, IsScheduled, Advance, storeVars, mapVars, loopVars, callVars

\* What a rebuild makes of the rows is a map of schedules.
LEMMA RebuiltTyped ==
    ASSUME rows \subseteq Rows, NEW s \in Schedules, NEW e \in Rebuilt(s)
    PROVE  e \in Entries /\ (e.state = "SCHEDULED" => e.at \in Times)
<1>1. CASE RowsOf(s) = {}
  BY <1>1, NoScheduleTyped DEF Rebuilt
<1>2. CASE RowsOf(s) # {}
  <2>1. PICK r \in Newest(s) : e = [state |-> r.state, at |-> r.at, updated |-> r.updated]
    BY <1>2 DEF Rebuilt
  <2>2. r \in Rows
    BY DEF Newest, RowsOf
  <2>3. r.state \in States /\ r.at \in Times /\ r.updated \in Times
    BY <2>2 DEF Rows
  <2>4. Times \subseteq 0 .. MaxTime
    BY NumbersAreInts DEF Times
  <2> QED
    BY <2>1, <2>3, <2>4 DEF Entries
<1> QED
  BY <1>1, <1>2

LEMMA TypedCrash == SInv /\ Crash => SInv'
<1> SUFFICES ASSUME SInv, Crash PROVE SInv'
  OBVIOUS
<1>1. rows \subseteq Rows /\ clock \in Times /\ crashes \in Nat
  BY DEF SInv, TypeOK, StoreTypeOK
<1>2. \A s \in Schedules :
          schedules'[s] \in Entries /\ (schedules'[s].state = "SCHEDULED" => schedules'[s].at \in Times)
  BY <1>1, RebuiltTyped DEF Crash
<1>3. \E T : schedules' \in [Schedules -> T]
  BY DEF Crash
<1>4. schedules' \in [Schedules -> Entries]
  BY <1>2, <1>3
<1>5. PendingTimed'
  BY <1>2 DEF PendingTimed, IsScheduled
<1>6. pending' \subseteq HeapEntries
  BY <1>2 DEF Crash, PendingOf, HeapEntries
<1>7. MapTypeOK' /\ StoreTypeOK'
  BY <1>1, <1>4, <1>6 DEF MapTypeOK, StoreTypeOK, Crash, storeVars, SInv, TypeOK
<1>8. LoopTypeOK' /\ CallTypeOK' /\ HoldersOK'
  BY <1>1, NoScheduleTyped DEF LoopTypeOK, CallTypeOK, HoldersOK, Crash
<1> QED
  BY <1>5, <1>7, <1>8 DEF SInv, TypeOK

\* Create and Cancel: what they write into the map is an entry of theirs.
LEMMA TypedCreate ==
    ASSUME SInv, NEW o \in Operators, NEW s \in Schedules, NEW at \in Times, Create(o, s, at)
    PROVE  SInv'
<1> DEFINE entry == [state |-> "SCHEDULED", at |-> at, updated |-> clock]
<1>1. clock \in Times /\ Times \subseteq 0 .. MaxTime
  BY NumbersAreInts DEF SInv, TypeOK, StoreTypeOK, Times
<1>2. /\ entry \in Entries /\ entry.state = "SCHEDULED"
      /\ entry.at \in Times /\ entry.updated \in Times
  BY <1>1 DEF Entries, States
<1> HIDE DEF entry
<1>3. /\ SetSchedules([schedules EXCEPT ![s] = entry], pending \union {[id |-> s, at |-> at]})
      /\ opc' = [opc EXCEPT ![o] = "create"] /\ oid' = [oid EXCEPT ![o] = s]
      /\ oentry' = [oentry EXCEPT ![o] = entry]
      /\ UNCHANGED <<storeVars, crashes, clock, seq, loopVars>>
  BY DEF Create, entry
<1>4. MapOK([schedules EXCEPT ![s] = entry])
  BY <1>2 DEF MapOK, SInv, TypeOK, MapTypeOK, PendingTimed, IsScheduled
<1>5. pending \union {[id |-> s, at |-> at]} \subseteq HeapEntries
  BY DEF HeapEntries, SInv, TypeOK, MapTypeOK
<1>6. schedules' \in [Schedules -> Entries] /\ pending' \subseteq HeapEntries /\ PendingTimed'
  BY <1>3, <1>4, <1>5, MapChanged
<1>7. CallTypeOK' /\ HoldersOK'
  <2>1. "SCHEDULED" \in States
    BY DEF States
  <2> QED
    BY <1>2, <1>3, <2>1, CopyTyped DEF HoldersOK, SInv, loopVars
<1> QED
  BY <1>3, <1>6, <1>7 DEF SInv, TypeOK, StoreTypeOK, MapTypeOK, LoopTypeOK, storeVars, loopVars

LEMMA TypedCancel ==
    ASSUME SInv, NEW o \in Operators, NEW s \in Schedules, Cancel(o, s)
    PROVE  SInv'
<1> DEFINE entry == [schedules[s] EXCEPT !.state = "CANCELLED", !.updated = clock]
<1>1. clock \in Times /\ clock \in 0 .. MaxTime /\ schedules[s] \in Entries
  BY NumbersAreInts DEF SInv, TypeOK, StoreTypeOK, MapTypeOK, Times
<1>2. entry \in Entries /\ entry.state = "CANCELLED" /\ entry.updated \in Times
  <2>1. "CANCELLED" \in States
    BY DEF States
  <2> QED
    BY <1>1, <2>1 DEF Entries
<1> HIDE DEF entry
<1>3. /\ SetSchedules([schedules EXCEPT ![s] = entry], pending)
      /\ opc' = [opc EXCEPT ![o] = "cancel"] /\ oid' = [oid EXCEPT ![o] = s]
      /\ oentry' = [oentry EXCEPT ![o] = entry]
      /\ UNCHANGED <<storeVars, crashes, clock, seq, loopVars>>
  BY DEF Cancel, entry
<1>4. MapOK([schedules EXCEPT ![s] = entry])
  BY <1>2 DEF MapOK, SInv, TypeOK, MapTypeOK, PendingTimed, IsScheduled
<1>5. pending \subseteq HeapEntries
  BY DEF SInv, TypeOK, MapTypeOK
<1>6. schedules' \in [Schedules -> Entries] /\ pending' \subseteq HeapEntries /\ PendingTimed'
  BY <1>3, <1>4, <1>5, MapChanged
<1>7. CallTypeOK' /\ HoldersOK'
  <2>1. "CANCELLED" \in States
    BY DEF States
  <2> QED
    BY <1>2, <1>3, <2>1, CopyTyped DEF HoldersOK, SInv, loopVars
<1> QED
  BY <1>3, <1>6, <1>7 DEF SInv, TypeOK, StoreTypeOK, MapTypeOK, LoopTypeOK, storeVars, loopVars

LEMMA TypedCallNumber ==
    ASSUME SInv, NEW o \in Operators, CallNumber(o)
    PROVE  SInv'
<1>1. seq' \in Nat
  BY DEF CallNumber, SInv, TypeOK, MapTypeOK
<1>2. opc' \in [Operators -> {"idle", "create", "cancel", "storeCreate", "storeCancel"}]
  BY DEF CallNumber, SInv, TypeOK, CallTypeOK
<1>3. \A p \in Operators : opc'[p] # "idle" => opc[p] # "idle"
  BY DEF CallNumber, SInv, TypeOK, CallTypeOK
<1> QED
  BY <1>1, <1>2, <1>3 DEF SInv, TypeOK, StoreTypeOK, MapTypeOK, LoopTypeOK, CallTypeOK, HoldersOK,
     PendingTimed, IsScheduled, CallNumber, storeVars, mapVars, loopVars

\* A call returns: it holds nothing any more.
LEMMA TypedReturn ==
    ASSUME SInv, NEW o \in Operators, Return(o)
    PROVE  CallTypeOK' /\ HoldersOK'
BY NoScheduleTyped DEF Return, SInv, TypeOK, CallTypeOK, HoldersOK, loopVars

LEMMA TypedCall ==
    ASSUME SInv, NEW o \in Operators, StoreCreated(o) \/ CreateFails(o) \/ StoreCancelled(o)
    PROVE  SInv'
<1>1. Return(o) /\ opc[o] # "idle" /\ (Persisted(oid[o], oentry[o]) \/ PersistFails(oid[o], oentry[o]))
  BY DEF StoreCreated, CreateFails, StoreCancelled
<1>2. /\ oid[o] \in Schedules /\ oentry[o] \in Entries
      /\ oentry[o].state \in States /\ oentry[o].updated \in Times
  BY <1>1 DEF SInv, TypeOK, CallTypeOK, HoldersOK
<1>3. rows' \subseteq Rows
  BY <1>1, <1>2, PersistedTyped DEF SInv, TypeOK, StoreTypeOK, MapTypeOK
<1>4. schedules' \in [Schedules -> Entries] /\ pending' \subseteq HeapEntries /\ PendingTimed'
  <2>1. CASE UNCHANGED mapVars
    BY <2>1 DEF mapVars, SInv, TypeOK, MapTypeOK, PendingTimed, IsScheduled
  <2>2. CASE CreateFails(o)
    <3>1. SetSchedules([schedules EXCEPT ![oid[o]] = NoSchedule], pending)
      BY <2>2 DEF CreateFails
    <3>2. MapOK([schedules EXCEPT ![oid[o]] = NoSchedule])
      BY NoScheduleTyped DEF MapOK, SInv, TypeOK, MapTypeOK, PendingTimed, IsScheduled
    <3>3. pending \subseteq HeapEntries
      BY DEF SInv, TypeOK, MapTypeOK
    <3> QED
      BY <3>1, <3>2, <3>3, MapChanged
  <2> QED
    BY <2>1, <2>2 DEF StoreCreated, StoreCancelled
<1> QED
  BY <1>1, <1>3, <1>4, TypedReturn DEF SInv, TypeOK, StoreTypeOK, MapTypeOK, LoopTypeOK, Return, loopVars

\* The loop.
LEMMA TypedLook ==
    ASSUME SInv, (\E t \in tick .. clock : Tick(t)) \/ (\E e \in pending : TakeDue(e)) \/ NothingDue
    PROVE  SInv'
<1>1. pending \subseteq HeapEntries /\ tick \in Times /\ clock \in Times
  BY DEF SInv, TypeOK, MapTypeOK, LoopTypeOK, StoreTypeOK
<1>2. CASE \E t \in tick .. clock : Tick(t)
  <2>1. \A t \in tick .. clock : t \in Times
    BY <1>1, NumbersAreInts DEF Times
  <2>2. tick' \in Times /\ lpc' = "look"
    BY <1>2, <2>1 DEF Tick
  <2> QED
    BY <1>2, <2>2 DEF Tick, SInv, TypeOK, StoreTypeOK, MapTypeOK, LoopTypeOK, CallTypeOK, HoldersOK,
       PendingTimed, IsScheduled, storeVars, mapVars, callVars
<1>3. CASE \E e \in pending : TakeDue(e)
  <2>1. PICK e \in pending : TakeDue(e)
    BY <1>3
  <2>2. pending' \subseteq HeapEntries /\ lcur' \in Schedules
    BY <1>1, <2>1, TrimKeepsLive DEF TakeDue, HeapEntries
  <2> QED
    BY <2>1, <2>2 DEF TakeDue, SInv, TypeOK, StoreTypeOK, MapTypeOK, LoopTypeOK, CallTypeOK, HoldersOK,
       PendingTimed, IsScheduled, storeVars, callVars
<1>4. CASE NothingDue
  <2>1. pending' \subseteq HeapEntries
    BY <1>1, <1>4, TrimKeepsLive DEF NothingDue
  <2> QED
    BY <1>4, <2>1 DEF NothingDue, SInv, TypeOK, StoreTypeOK, MapTypeOK, LoopTypeOK, CallTypeOK, HoldersOK,
       PendingTimed, IsScheduled, storeVars, callVars
<1> QED
  BY <1>2, <1>3, <1>4

LEMMA TypedSubmit == SInv /\ Submit => SInv'
<1> SUFFICES ASSUME SInv, Submit PROVE SInv'
  OBVIOUS
<1>1. lcur \in Schedules
  BY DEF SInv, HoldersOK, Submit
<1>2. CommandOf(lcur) \in Commands
  BY <1>1, SchedulerAssumption
<1>3. commands' \subseteq Commands
  BY <1>2 DEF Submit, SInv, TypeOK, StoreTypeOK
<1>4. lpc' \in {"expire", "dispatch"}
  BY DEF Submit
<1> QED
  BY <1>1, <1>3, <1>4 DEF Submit, SInv, TypeOK, StoreTypeOK, MapTypeOK, LoopTypeOK, CallTypeOK, HoldersOK,
     PendingTimed, IsScheduled, mapVars, callVars

LEMMA TypedSettle == SInv /\ Settle => SInv'
<1> SUFFICES ASSUME SInv, Settle PROVE SInv'
  OBVIOUS
<1> DEFINE outcome == IF lpc = "expire" THEN "EXPIRED" ELSE "DISPATCHED"
           entry == [schedules[lcur] EXCEPT !.state = outcome, !.updated = tick]
<1>1. /\ lcur \in Schedules /\ schedules[lcur] \in Entries
      /\ tick \in Times /\ tick \in 0 .. MaxTime /\ outcome \in States
      /\ outcome # "SCHEDULED"
  BY NumbersAreInts DEF SInv, HoldersOK, TypeOK, MapTypeOK, LoopTypeOK, Settle, Times, States
<1> HIDE DEF outcome
<1>2. entry \in Entries /\ entry.state = outcome /\ entry.updated \in Times
  BY <1>1 DEF Entries
<1>3. /\ SetSchedules([schedules EXCEPT ![lcur] = entry], pending)
      /\ lentry' = entry /\ lpc' = "number"
      /\ UNCHANGED <<storeVars, crashes, clock, seq, tick, lcur, callVars>>
  BY DEF Settle, outcome
<1> HIDE DEF entry
<1>4. MapOK([schedules EXCEPT ![lcur] = entry])
  BY <1>1, <1>2 DEF MapOK, SInv, TypeOK, MapTypeOK, PendingTimed, IsScheduled
<1>5. pending \subseteq HeapEntries
  BY DEF SInv, TypeOK, MapTypeOK
<1>6. schedules' \in [Schedules -> Entries] /\ pending' \subseteq HeapEntries /\ PendingTimed'
  BY <1>3, <1>4, <1>5, MapChanged
<1> QED
  BY <1>1, <1>2, <1>3, <1>6 DEF SInv, TypeOK, StoreTypeOK, MapTypeOK, LoopTypeOK, CallTypeOK, HoldersOK,
     storeVars, callVars

LEMMA TypedStore == SInv /\ (LoopNumber \/ StoreSettled) => SInv'
<1> SUFFICES ASSUME SInv, LoopNumber \/ StoreSettled PROVE SInv'
  OBVIOUS
<1>1. CASE LoopNumber
  <2>1. seq' \in Nat
    BY <1>1 DEF LoopNumber, SInv, TypeOK, MapTypeOK
  <2> QED
    BY <1>1, <2>1 DEF LoopNumber, SInv, TypeOK, StoreTypeOK, MapTypeOK, LoopTypeOK, CallTypeOK, HoldersOK,
       PendingTimed, IsScheduled, storeVars, mapVars, callVars
<1>2. CASE StoreSettled
  <2>1. /\ lcur \in Schedules /\ lentry \in Entries
        /\ lentry.state \in States /\ lentry.updated \in Times
    BY <1>2 DEF StoreSettled, SInv, TypeOK, LoopTypeOK, HoldersOK
  <2>2. rows' \subseteq Rows
    BY <1>2, <2>1, PersistedTyped DEF StoreSettled, SInv, TypeOK, StoreTypeOK, MapTypeOK
  <2> QED
    BY <1>2, <2>2, NoScheduleTyped DEF StoreSettled, SInv, TypeOK, StoreTypeOK, MapTypeOK, LoopTypeOK,
       CallTypeOK, HoldersOK, PendingTimed, IsScheduled, mapVars, callVars
<1> QED
  BY <1>1, <1>2

LEMMA TypedNext == SInv /\ [Next]_vars => SInv'
<1> SUFFICES ASSUME SInv, [Next]_vars PROVE SInv'
  OBVIOUS
<1>1. CASE UNCHANGED vars
  BY <1>1 DEF vars, SInv, TypeOK, StoreTypeOK, MapTypeOK, LoopTypeOK, CallTypeOK, HoldersOK,
     PendingTimed, IsScheduled, storeVars, mapVars, loopVars, callVars
<1>2. CASE Next
  BY <1>2, TypedAdvance, TypedCrash, TypedCreate, TypedCancel, TypedCallNumber, TypedCall, TypedLook,
     TypedSubmit, TypedSettle, TypedStore DEF Next, Dispatching, Call
<1> QED
  BY <1>1, <1>2

THEOREM SchedulerTyped == Spec => []SInv
<1> QED
  BY TypedInit, TypedNext, PTL DEF Spec

(* Type correctness of the scheduler, its rows and its calls: no entry but  *)
(* of a schedule, no row without a state or a time, whatever fails.         *)
THEOREM SchedulerTypeCorrect == Spec => []TypeOK
<1>1. SInv => TypeOK
  BY DEF SInv
<1> QED
  BY <1>1, SchedulerTyped, PTL
-----------------------------------------------------------------------------
(* The heap covers what is pending *)

\* The loop has schedule s in hand, between taking it and settling it.
InHand(s) == lcur = s /\ lpc \in {"submit", "expire", "dispatch"}

\* A change of the map keeps the cover if every pending schedule of the new
\* map is in the heap that is trimmed, or in the loop's hand.
LEMMA CoverKept ==
    ASSUME NEW f, NEW h, h \subseteq HeapEntries, SetSchedules(f, h),
           \A s \in Schedules : f[s].state = "SCHEDULED" =>
               [id |-> s, at |-> f[s].at] \in h \/ InHand(s)'
    PROVE  HeapCoversPending'
<1>1. schedules' = f /\ pending' = Trimmed(f, h)
  BY DEF SetSchedules
<1>2. \A s \in Schedules : f[s].state = "SCHEDULED" =>
          Live(f, [id |-> s, at |-> f[s].at])
  BY DEF Live
<1> QED
  BY <1>1, <1>2, TrimKeepsLive DEF HeapCoversPending, IsScheduled, InHand

LEMMA CoverNext == SInv /\ HeapCoversPending /\ [Next]_vars => HeapCoversPending'
<1> SUFFICES ASSUME SInv, HeapCoversPending, [Next]_vars PROVE HeapCoversPending'
  OBVIOUS
<1>1. pending \subseteq HeapEntries /\ schedules \in [Schedules -> Entries]
  BY DEF SInv, TypeOK, MapTypeOK
<1>2. \A s \in Schedules : schedules[s].state = "SCHEDULED" =>
          [id |-> s, at |-> schedules[s].at] \in pending \/ InHand(s)
  BY DEF HeapCoversPending, IsScheduled, InHand
<1>3. ASSUME NEW o \in Operators, NEW s \in Schedules, NEW at \in Times, Create(o, s, at)
      PROVE  HeapCoversPending'
  <2> DEFINE entry == [state |-> "SCHEDULED", at |-> at, updated |-> clock]
             f == [schedules EXCEPT ![s] = entry]
             h == pending \union {[id |-> s, at |-> at]}
  <2>1. SetSchedules(f, h) /\ UNCHANGED <<lpc, lcur>>
    BY <1>3 DEF Create, loopVars
  <2>2. h \subseteq HeapEntries
    BY <1>1 DEF HeapEntries
  <2>3. f[s].at = at /\ \A x \in Schedules : x # s => f[x] = schedules[x]
    BY <1>1
  <2>4. \A x \in Schedules : InHand(x) => InHand(x)'
    BY <2>1 DEF InHand
  <2>5. \A x \in Schedules : f[x].state = "SCHEDULED" =>
            [id |-> x, at |-> f[x].at] \in h \/ InHand(x)'
    BY <1>2, <2>3, <2>4
  <2> HIDE DEF f, h
  <2> QED
    BY <2>1, <2>2, <2>5, CoverKept
<1>4. ASSUME NEW s \in Schedules, NEW e, e.state # "SCHEDULED",
             SetSchedules([schedules EXCEPT ![s] = e], pending),
             \A x \in Schedules : x # s /\ InHand(x) => InHand(x)'
      PROVE  HeapCoversPending'
  <2> DEFINE f == [schedules EXCEPT ![s] = e]
  <2>1. \A x \in Schedules : f[x].state = "SCHEDULED" =>
            [id |-> x, at |-> f[x].at] \in pending \/ InHand(x)'
    BY <1>1, <1>2, <1>4
  <2> HIDE DEF f
  <2>2. SetSchedules(f, pending)
    BY <1>4 DEF f
  <2> QED
    BY <1>1, <2>1, <2>2, CoverKept
<1>5. ASSUME NEW o \in Operators, NEW s \in Schedules, Cancel(o, s)
      PROVE  HeapCoversPending'
  <2> DEFINE entry == [schedules[s] EXCEPT !.state = "CANCELLED", !.updated = clock]
  <2>1. entry.state = "CANCELLED"
    BY <1>1 DEF Entries
  <2>2. SetSchedules([schedules EXCEPT ![s] = entry], pending) /\ UNCHANGED <<lpc, lcur>>
    BY <1>5 DEF Cancel, loopVars
  <2> HIDE DEF entry
  <2> QED
    BY <1>4, <2>1, <2>2 DEF InHand
<1>6. ASSUME NEW o \in Operators, CreateFails(o)
      PROVE  HeapCoversPending'
  <2>1. oid[o] \in Schedules
    BY <1>6 DEF CreateFails, SInv, HoldersOK
  <2>2. /\ SetSchedules([schedules EXCEPT ![oid[o]] = NoSchedule], pending)
        /\ UNCHANGED <<lpc, lcur>>
    BY <1>6 DEF CreateFails, Return, loopVars
  <2> QED
    BY <1>4, <2>1, <2>2, NoScheduleTyped DEF InHand
<1>7. CASE Settle
  <2> DEFINE outcome == IF lpc = "expire" THEN "EXPIRED" ELSE "DISPATCHED"
             entry == [schedules[lcur] EXCEPT !.state = outcome, !.updated = tick]
  <2>1. lcur \in Schedules /\ schedules[lcur] \in Entries
    BY <1>1, <1>7 DEF Settle, SInv, HoldersOK
  <2>2. entry.state # "SCHEDULED"
    BY <2>1 DEF Entries
  <2>3. SetSchedules([schedules EXCEPT ![lcur] = entry], pending)
    BY <1>7 DEF Settle
  <2> HIDE DEF entry
  <2> QED
    BY <1>4, <2>1, <2>2, <2>3 DEF InHand
<1>8. CASE Crash
  BY <1>8 DEF Crash, PendingOf, HeapCoversPending, IsScheduled
<1>9. CASE \E e \in pending : TakeDue(e)
  <2>1. PICK e \in pending : TakeDue(e)
    BY <1>9
  <2>2. \A d \in pending : Live(schedules, d) => d \in Trimmed(schedules, pending)
    BY <1>1, TrimKeepsLive
  <2>3. \A s \in Schedules : schedules[s].state = "SCHEDULED" =>
            [id |-> s, at |-> schedules[s].at] \in Trimmed(schedules, pending)
    <3>1. lpc = "look"
      BY <2>1 DEF TakeDue
    <3> QED
      BY <1>2, <2>2, <3>1 DEF Live, InHand
  <2> QED
    BY <2>1, <2>3 DEF TakeDue, HeapCoversPending, IsScheduled
<1>10. CASE NothingDue
  <2>1. \A d \in pending : Live(schedules, d) => d \in Trimmed(schedules, pending)
    BY <1>1, TrimKeepsLive
  <2> QED
    BY <1>2, <1>10, <2>1 DEF NothingDue, HeapCoversPending, IsScheduled, Live, InHand
<1>11. ASSUME UNCHANGED mapVars, \A x \in Schedules : InHand(x) => InHand(x)'
       PROVE  HeapCoversPending'
  BY <1>2, <1>11 DEF mapVars, HeapCoversPending, IsScheduled, InHand
<1>12. CASE Advance \/ (\E t \in tick .. clock : Tick(t)) \/ Submit \/ LoopNumber \/ StoreSettled
  BY <1>11, <1>12 DEF Advance, Tick, Submit, LoopNumber, StoreSettled, mapVars, loopVars, InHand
<1>13. ASSUME NEW o \in Operators, CallNumber(o) \/ StoreCreated(o) \/ StoreCancelled(o)
       PROVE  HeapCoversPending'
  BY <1>11, <1>13 DEF CallNumber, StoreCreated, StoreCancelled, Return, loopVars, InHand
<1>14. CASE UNCHANGED vars
  BY <1>11, <1>14 DEF vars, loopVars, InHand
<1> QED
  BY <1>3, <1>5, <1>6, <1>7, <1>8, <1>9, <1>10, <1>12, <1>13, <1>14 DEF Next, Dispatching, Call

(* Whatever fails, is cancelled or restarted, and although stale entries are *)
(* dropped only at the top: a SCHEDULED schedule is in the heap at its time, *)
(* or the loop has just taken it.                                           *)
THEOREM HeapCovers == Spec => []HeapCoversPending
<1>1. Init => HeapCoversPending
  BY NoScheduleTyped DEF Init, HeapCoversPending, IsScheduled
<1> QED
  BY <1>1, SchedulerTyped, CoverNext, PTL DEF Spec
-----------------------------------------------------------------------------
(* Until the next restart a cancelled schedule is left alone by everything   *)
(* but a loop that had it in hand, although its entry stays in the heap.    *)
THEOREM CancelHolding == Spec => CancelHolds
<1> DEFINE Holds ==
      \A s \in Schedules :
        schedules[s].state = "CANCELLED" /\ lcur # s /\ crashes' = crashes
          => lcur' # s /\ schedules'[s].state \in {"CANCELLED", "none"}
<1>1. ASSUME SInv, [Next]_vars PROVE [Holds]_vars
  <2> SUFFICES ASSUME Next, NEW s \in Schedules, schedules[s].state = "CANCELLED", lcur # s,
                      crashes' = crashes
               PROVE  lcur' # s /\ schedules'[s].state \in {"CANCELLED", "none"}
    BY <1>1
  <2>1. schedules \in [Schedules -> Entries] /\ pending \subseteq HeapEntries
    BY <1>1 DEF SInv, TypeOK, MapTypeOK
  <2>2. ~Crash
    BY <1>1 DEF Crash, SInv, TypeOK, StoreTypeOK
  <2>3. ASSUME NEW x \in Schedules, NEW e, x # s, NEW h,
               SetSchedules([schedules EXCEPT ![x] = e], h), lcur' = lcur
        PROVE  lcur' # s /\ schedules'[s].state \in {"CANCELLED", "none"}
    BY <2>1, <2>3 DEF SetSchedules
  <2>4. ASSUME NEW o \in Operators, NEW x \in Schedules,
               Cancel(o, x) \/ \E at \in Times : Create(o, x, at)
        PROVE  lcur' # s /\ schedules'[s].state \in {"CANCELLED", "none"}
    <3>1. x # s
      BY <2>4 DEF Cancel, Create, IsScheduled, Exists
    <3>2. lcur' = lcur /\ \E e, h : SetSchedules([schedules EXCEPT ![x] = e], h)
      BY <2>4 DEF Cancel, Create, loopVars
    <3> QED
      BY <2>3, <3>1, <3>2
  <2>5. ASSUME NEW o \in Operators, CreateFails(o)
        PROVE  lcur' # s /\ schedules'[s].state \in {"CANCELLED", "none"}
    BY <2>1, <2>5, NoScheduleTyped DEF CreateFails, Return, SetSchedules, loopVars
  <2>6. CASE Settle
    <3>1. lcur \in Schedules
      BY <1>1, <2>6 DEF Settle, SInv, HoldersOK
    <3> QED
      BY <2>3, <2>6, <3>1 DEF Settle
  <2>7. CASE \E e \in pending : TakeDue(e)
    <3>1. PICK e \in pending : TakeDue(e)
      BY <2>7
    <3>2. Live(schedules, e)
      BY <2>1, <3>1, TopIsLive DEF TakeDue
    <3> QED
      BY <3>1, <3>2 DEF TakeDue, Live
  <2>8. CASE Advance \/ (\E t \in tick .. clock : Tick(t)) \/ Submit \/ LoopNumber \/ NothingDue
    BY <2>8 DEF Advance, Tick, Submit, LoopNumber, NothingDue, mapVars, loopVars
  <2>9. CASE StoreSettled
    BY <2>9, SchedulerAssumption DEF StoreSettled, mapVars
  <2>10. ASSUME NEW o \in Operators, CallNumber(o) \/ StoreCreated(o) \/ StoreCancelled(o)
         PROVE  lcur' # s /\ schedules'[s].state \in {"CANCELLED", "none"}
    BY <2>10 DEF CallNumber, StoreCreated, StoreCancelled, Return, mapVars, loopVars
  <2> QED
    BY <2>2, <2>4, <2>5, <2>6, <2>7, <2>8, <2>9, <2>10 DEF Next, Dispatching, Call
<1> QED
  BY <1>1, SchedulerTyped, PTL DEF Spec, CancelHolds
-----------------------------------------------------------------------------
(* A boundary that works: nothing is dispatched without its command *)

\* Wherever an outcome is copied to, it is the outcome of a command that is stored.
StoredInv ==
    /\ DispatchedIsStored
    /\ \A r \in rows : r.state = "DISPATCHED" => CommandOf(r.id) \in commands
    /\ lpc = "dispatch" => CommandOf(lcur) \in commands
    /\ lpc \in {"number", "store"} /\ lentry.state = "DISPATCHED" => CommandOf(lcur) \in commands
    /\ \A o \in Operators : oentry[o].state # "DISPATCHED"

\* A row that was not there before is the one persist was called with.
LEMMA PersistAdds ==
    ASSUME NEW s, NEW e, Persisted(s, e) \/ PersistFails(s, e), NEW r \in rows', r \notin rows
    PROVE  r.id = s /\ r.state = e.state /\ r.at = e.at
BY DEF Persisted, PersistFails, Row

\* An outcome a rebuild brings back is one of a row.
LEMMA RebuiltFromRow ==
    ASSUME NEW s \in Schedules, NEW e \in Rebuilt(s), e.state = "DISPATCHED"
    PROVE  \E r \in rows : r.id = s /\ r.state = "DISPATCHED" /\ r.at = e.at
BY NoScheduleTyped DEF Rebuilt, Newest, RowsOf

LEMMA StoredNext ==
    ASSUME "store" \notin Faults, SInv, StoredInv, [Next]_vars
    PROVE  StoredInv'
<1>1. schedules \in [Schedules -> Entries] /\ oentry \in [Operators -> Entries]
  BY DEF SInv, TypeOK, MapTypeOK, CallTypeOK
<1>2. NoSchedule.state # "DISPATCHED"
  BY NoScheduleTyped
<1>3. ASSUME NEW o \in Operators, NEW s \in Schedules, NEW at \in Times, Create(o, s, at)
      PROVE  StoredInv'
  <2> DEFINE entry == [state |-> "SCHEDULED", at |-> at, updated |-> clock]
  <2>1. entry.state = "SCHEDULED"
    OBVIOUS
  <2>2. /\ schedules' = [schedules EXCEPT ![s] = entry]
        /\ oentry' = [oentry EXCEPT ![o] = entry]
        /\ UNCHANGED <<storeVars, loopVars>>
    BY <1>3 DEF Create, SetSchedules
  <2> HIDE DEF entry
  <2> QED
    BY <1>1, <2>1, <2>2 DEF StoredInv, DispatchedIsStored, storeVars, loopVars
<1>4. ASSUME NEW o \in Operators, NEW s \in Schedules, Cancel(o, s)
      PROVE  StoredInv'
  <2> DEFINE entry == [schedules[s] EXCEPT !.state = "CANCELLED", !.updated = clock]
  <2>1. entry.state = "CANCELLED"
    BY <1>1 DEF Entries
  <2>2. /\ schedules' = [schedules EXCEPT ![s] = entry]
        /\ oentry' = [oentry EXCEPT ![o] = entry]
        /\ UNCHANGED <<storeVars, loopVars>>
    BY <1>4 DEF Cancel, SetSchedules
  <2> HIDE DEF entry
  <2> QED
    BY <1>1, <2>1, <2>2 DEF StoredInv, DispatchedIsStored, storeVars, loopVars
<1>5. ASSUME NEW o \in Operators, StoreCreated(o) \/ CreateFails(o) \/ StoreCancelled(o)
      PROVE  StoredInv'
  <2>1. \A r \in rows' : r \in rows \/ r.state = oentry[o].state
    BY <1>5, PersistAdds DEF StoreCreated, CreateFails, StoreCancelled
  <2>2. \A s \in Schedules : schedules'[s] = schedules[s] \/ schedules'[s] = NoSchedule
    BY <1>1, <1>5 DEF StoreCreated, CreateFails, StoreCancelled, SetSchedules, mapVars
  <2>3. Return(o)
    BY <1>5 DEF StoreCreated, CreateFails, StoreCancelled
  <2>4. \A p \in Operators : oentry'[p] = oentry[p] \/ oentry'[p] = NoSchedule
    BY <1>1, <2>3 DEF Return
  <2> QED
    BY <1>2, <2>1, <2>2, <2>3, <2>4 DEF StoredInv, DispatchedIsStored, Return, loopVars
<1>6. CASE Crash
  <2>1. \A s \in Schedules : schedules'[s] \in Rebuilt(s)
    BY <1>6 DEF Crash
  <2>2. \A s \in Schedules : schedules'[s].state = "DISPATCHED" => CommandOf(s) \in commands
    BY <2>1, RebuiltFromRow DEF StoredInv
  <2> QED
    BY <1>2, <1>6, <2>2 DEF Crash, StoredInv, DispatchedIsStored, storeVars
<1>7. CASE Submit
  <2>1. commands \subseteq commands' /\ (lpc' = "dispatch" => CommandOf(lcur) \in commands')
    BY <1>7 DEF Submit
  <2> QED
    BY <1>7, <2>1 DEF Submit, StoredInv, DispatchedIsStored, mapVars, callVars
<1>8. CASE Settle
  <2> DEFINE outcome == IF lpc = "expire" THEN "EXPIRED" ELSE "DISPATCHED"
             entry == [schedules[lcur] EXCEPT !.state = outcome, !.updated = tick]
  <2>1. lcur \in Schedules /\ schedules[lcur] \in Entries
    BY <1>1, <1>8 DEF Settle, SInv, HoldersOK
  <2>2. entry.state = "DISPATCHED" => CommandOf(lcur) \in commands
    BY <1>8, <2>1 DEF Entries, Settle, StoredInv
  <2>3. /\ schedules' = [schedules EXCEPT ![lcur] = entry]
        /\ lentry' = entry /\ lpc' = "number"
        /\ UNCHANGED <<storeVars, lcur, callVars>>
    BY <1>8 DEF Settle, SetSchedules
  <2> HIDE DEF entry
  <2> QED
    BY <1>1, <2>1, <2>2, <2>3 DEF StoredInv, DispatchedIsStored, storeVars, callVars
<1>9. CASE StoreSettled
  <2>1. \A r \in rows' : r \in rows \/ (r.id = lcur /\ r.state = lentry.state)
    BY <1>9, PersistAdds DEF StoreSettled
  <2> QED
    BY <1>2, <1>9, <2>1 DEF StoreSettled, StoredInv, DispatchedIsStored, mapVars, callVars
<1>10. CASE Advance \/ (\E t \in tick .. clock : Tick(t)) \/ LoopNumber \/ NothingDue
  BY <1>10 DEF Advance, Tick, LoopNumber, NothingDue, StoredInv, DispatchedIsStored,
     storeVars, mapVars, loopVars, callVars
<1>11. ASSUME NEW o \in Operators, CallNumber(o)
       PROVE  StoredInv'
  BY <1>11 DEF CallNumber, StoredInv, DispatchedIsStored, storeVars, mapVars, loopVars
<1>12. CASE \E e \in pending : TakeDue(e)
  BY <1>12 DEF TakeDue, StoredInv, DispatchedIsStored, storeVars, callVars
<1>13. CASE UNCHANGED vars
  BY <1>13 DEF vars, StoredInv, DispatchedIsStored, storeVars, mapVars, loopVars, callVars
<1> QED
  BY <1>3, <1>4, <1>5, <1>6, <1>7, <1>8, <1>9, <1>10, <1>11, <1>12, <1>13 DEF Next, Dispatching, Call

(* While the boundary stores what it is given, a schedule that says          *)
(* DISPATCHED has its command stored: across cancellations, failing         *)
(* creations, lost answers and restarts that bring the outcome back.        *)
THEOREM OnlyStoredDispatched ==
    ASSUME "store" \notin Faults
    PROVE  Spec => []DispatchedIsStored
<1>1. Init => StoredInv
  BY NoScheduleTyped DEF Init, StoredInv, DispatchedIsStored
<1>2. SInv /\ StoredInv /\ [Next]_vars => StoredInv'
  BY StoredNext
<1>3. StoredInv => DispatchedIsStored
  BY DEF StoredInv
<1> QED
  BY <1>1, <1>2, <1>3, SchedulerTyped, PTL DEF Spec
-----------------------------------------------------------------------------
(* A boundary that works: nothing is dispatched before its time *)

\* The loop holds a due schedule, which nobody deletes; and an outcome, wherever
\* it is copied to, is of a schedule whose time has come.
EarlyInv ==
    /\ tick <= clock
    /\ \A s \in Schedules : InHand(s) => Exists(s) /\ schedules[s].at <= tick
    /\ \A s \in Schedules : schedules[s].state = "DISPATCHED" => schedules[s].at <= clock
    /\ \A r \in rows : r.state = "DISPATCHED" => r.at <= clock
    /\ lpc \in {"number", "store"} /\ lentry.state = "DISPATCHED" => lentry.at <= clock
    /\ \A o \in Operators : oentry[o].state # "DISPATCHED"

\* NeverEarly, of one step.
EarlyStep ==
    \A s \in Schedules :
        schedules[s].state # "DISPATCHED" /\ schedules'[s].state = "DISPATCHED"
          => schedules'[s].at <= clock

LEMMA EarlyNext ==
    ASSUME Faults = {}, SInv, EarlyInv, [Next]_vars
    PROVE  EarlyInv' /\ EarlyStep
<1>1. schedules \in [Schedules -> Entries] /\ oentry \in [Operators -> Entries]
  BY DEF SInv, TypeOK, MapTypeOK, CallTypeOK
<1>2. NoSchedule.state # "DISPATCHED"
  BY NoScheduleTyped
<1>3. /\ clock \in Int /\ tick \in Int
      /\ \A s \in Schedules : schedules[s].at \in Int
      /\ \A r \in rows : r.at \in Int
      /\ lentry.at \in Int
  <2>1. /\ clock \in Times /\ tick \in Times /\ rows \subseteq Rows /\ lentry \in Entries
    BY DEF SInv, TypeOK, StoreTypeOK, LoopTypeOK
  <2>2. \A e \in Entries : e.at \in Int
    BY NumbersAreInts DEF Entries
  <2>3. \A r \in rows : r.at \in Times
    BY <2>1 DEF Rows
  <2> QED
    BY <1>1, <2>1, <2>2, <2>3, NumbersAreInts
<1>5. ASSUME NEW o \in Operators, NEW s \in Schedules, NEW at \in Times, Create(o, s, at)
      PROVE  EarlyInv' /\ EarlyStep
  <2> DEFINE entry == [state |-> "SCHEDULED", at |-> at, updated |-> clock]
  <2>1. entry.state = "SCHEDULED"
    OBVIOUS
  <2>2. /\ schedules' = [schedules EXCEPT ![s] = entry]
        /\ oentry' = [oentry EXCEPT ![o] = entry]
        /\ UNCHANGED <<storeVars, clock, loopVars>>
    BY <1>5 DEF Create, SetSchedules
  <2>3. ~InHand(s)
    BY <1>5 DEF Create, EarlyInv
  <2> HIDE DEF entry
  <2> QED
    BY <1>1, <2>1, <2>2, <2>3 DEF EarlyInv, EarlyStep, InHand, Exists, storeVars, loopVars
<1>6. ASSUME NEW o \in Operators, NEW s \in Schedules, Cancel(o, s)
      PROVE  EarlyInv' /\ EarlyStep
  <2> DEFINE entry == [schedules[s] EXCEPT !.state = "CANCELLED", !.updated = clock]
  <2>1. entry.state = "CANCELLED" /\ entry.at = schedules[s].at
    BY <1>1 DEF Entries
  <2>2. /\ schedules' = [schedules EXCEPT ![s] = entry]
        /\ oentry' = [oentry EXCEPT ![o] = entry]
        /\ UNCHANGED <<storeVars, clock, loopVars>>
    BY <1>6 DEF Cancel, SetSchedules
  <2> HIDE DEF entry
  <2> QED
    BY <1>1, <2>1, <2>2 DEF EarlyInv, EarlyStep, InHand, Exists, storeVars, loopVars
<1>7. ASSUME NEW o \in Operators, StoreCreated(o) \/ CreateFails(o) \/ StoreCancelled(o)
      PROVE  EarlyInv' /\ EarlyStep
  <2>1. (StoreCreated(o) \/ StoreCancelled(o)) /\ Persisted(oid[o], oentry[o])
    BY <1>7 DEF StoreCreated, CreateFails, StoreCancelled, PersistFails
  <2>2. \A r \in rows' : r \in rows \/ r.state = oentry[o].state
    BY <2>1, PersistAdds
  <2>3. Return(o) /\ UNCHANGED mapVars
    BY <2>1 DEF StoreCreated, StoreCancelled
  <2>4. \A p \in Operators : oentry'[p] = oentry[p] \/ oentry'[p] = NoSchedule
    BY <1>1, <2>3 DEF Return
  <2> QED
    BY <1>2, <2>2, <2>3, <2>4 DEF EarlyInv, EarlyStep, InHand, Exists, Return, mapVars, loopVars
<1>8. CASE Crash
  <2>1. \A s \in Schedules : schedules'[s].state = "DISPATCHED" => schedules'[s].at <= clock
    <3>1. \A s \in Schedules : schedules'[s] \in Rebuilt(s)
      BY <1>8 DEF Crash
    <3> QED
      BY <3>1, RebuiltFromRow DEF EarlyInv
  <2> QED
    BY <1>2, <1>3, <1>8, <2>1 DEF Crash, EarlyInv, EarlyStep, InHand, storeVars
<1>9. CASE Settle
  <2> DEFINE outcome == IF lpc = "expire" THEN "EXPIRED" ELSE "DISPATCHED"
             entry == [schedules[lcur] EXCEPT !.state = outcome, !.updated = tick]
  <2>1. lcur \in Schedules /\ schedules[lcur] \in Entries
    BY <1>1, <1>9 DEF Settle, SInv, HoldersOK
  <2>2. entry.at = schedules[lcur].at
    BY <2>1 DEF Entries
  <2>3. entry.at <= clock
    BY <1>3, <1>9, <2>1, <2>2 DEF EarlyInv, InHand, Settle
  <2>4. /\ schedules' = [schedules EXCEPT ![lcur] = entry]
        /\ lentry' = entry /\ lpc' = "number"
        /\ UNCHANGED <<storeVars, clock, tick, lcur, callVars>>
    BY <1>9 DEF Settle, SetSchedules
  <2> HIDE DEF entry
  <2> QED
    BY <1>1, <2>1, <2>3, <2>4 DEF EarlyInv, EarlyStep, InHand, Exists, storeVars, callVars
<1>10. CASE StoreSettled
  <2>1. Persisted(lcur, lentry)
    BY <1>10 DEF StoreSettled, PersistFails
  <2>2. \A r \in rows' : r \in rows \/ (r.state = lentry.state /\ r.at = lentry.at)
    BY <2>1, PersistAdds
  <2> QED
    BY <1>2, <1>10, <2>2 DEF StoreSettled, EarlyInv, EarlyStep, InHand, Exists, mapVars, callVars
<1>11. CASE \E e \in pending : TakeDue(e)
  <2>1. PICK e \in pending : TakeDue(e)
    BY <1>11
  <2>2. Live(schedules, e)
    BY <2>1, TopIsLive DEF TakeDue, SInv, TypeOK, MapTypeOK
  <2>3. schedules[e.id].state = "SCHEDULED" /\ schedules[e.id].at <= tick
    BY <2>1, <2>2 DEF TakeDue, Live, Due
  <2> QED
    BY <2>1, <2>3 DEF TakeDue, EarlyInv, EarlyStep, InHand, Exists, storeVars, callVars
<1>12. CASE Advance
  <2>1. clock' = clock + 1
    BY <1>12 DEF Advance
  <2> QED
    BY <1>3, <1>12, <2>1 DEF Advance, EarlyInv, EarlyStep, InHand, Exists, storeVars, mapVars,
       loopVars, callVars
<1>13. CASE \E t \in tick .. clock : Tick(t)
  <2>1. PICK t \in tick .. clock : Tick(t)
    BY <1>13
  <2>2. tick' <= clock /\ lpc' = "look"
    BY <1>3, <2>1 DEF Tick
  <2> QED
    BY <2>1, <2>2 DEF Tick, EarlyInv, EarlyStep, InHand, Exists, storeVars, mapVars, callVars
<1>14. CASE Submit \/ LoopNumber \/ NothingDue
  BY <1>14 DEF Submit, LoopNumber, NothingDue, EarlyInv, EarlyStep, InHand, Exists,
     storeVars, mapVars, loopVars, callVars
<1>15. ASSUME NEW o \in Operators, CallNumber(o)
       PROVE  EarlyInv' /\ EarlyStep
  BY <1>15 DEF CallNumber, EarlyInv, EarlyStep, InHand, Exists, storeVars, mapVars, loopVars
<1>16. CASE UNCHANGED vars
  BY <1>16 DEF vars, EarlyInv, EarlyStep, InHand, Exists, storeVars, mapVars, loopVars, callVars
<1> QED
  BY <1>5, <1>6, <1>7, <1>8, <1>9, <1>10, <1>11, <1>12, <1>13, <1>14, <1>15, <1>16
     DEF Next, Dispatching, Call

(* While nothing fails, no schedule becomes DISPATCHED before its time: late *)
(* ticks, cancellations and restarts included.  With failures it is not so: *)
(* a creation that fails may delete the schedule the loop has in hand, and  *)
(* the next creation gives it another time.                                 *)
THEOREM NoEarlyDispatch ==
    ASSUME Faults = {}
    PROVE  Spec => NeverEarly
<1>1. Init => EarlyInv
  BY NoScheduleTyped DEF Init, EarlyInv, InHand
<1>2. SInv /\ EarlyInv /\ [Next]_vars => EarlyInv'
  BY EarlyNext
<1>3. SInv /\ EarlyInv /\ [Next]_vars => [EarlyStep]_vars
  BY EarlyNext
<1>4. NeverEarly <=> [][EarlyStep]_vars
  BY PTL DEF NeverEarly, EarlyStep
<1> QED
  BY <1>1, <1>2, <1>3, <1>4, SchedulerTyped, PTL DEF Spec
-----------------------------------------------------------------------------
(* A boundary that works: a restart brings back what is pending *)

Creating(o) == opc[o] \in {"create", "storeCreate"}
Cancelling(o) == opc[o] \in {"cancel", "storeCancel"}
Settling == lpc \in {"submit", "expire", "dispatch", "number", "store"}

\* A schedule exists while somebody holds it or a row tells of it.
HeldExist ==
    /\ \A s \in Schedules : RowsOf(s) # {} => Exists(s)
    /\ \A o \in Operators : Creating(o) \/ Cancelling(o) => Exists(oid[o])
    /\ \A o \in Operators : opc[o] = "idle" => oid[o] \notin Schedules
    /\ Settling => Exists(lcur)

\* A schedule is created once, and has one row that says SCHEDULED at most:
\* the row of its creation.
CreatedOnce ==
    /\ \A o, p \in Operators : Creating(o) /\ Creating(p) /\ oid[o] = oid[p] => o = p
    /\ \A o \in Operators : Creating(o) =>
          /\ oentry[o].state = "SCHEDULED" /\ oentry[o].at \in Times
          /\ \A r \in RowsOf(oid[o]) : r.state # "SCHEDULED"
    /\ \A s \in Schedules : \A q, r \in RowsOf(s) :
          q.state = "SCHEDULED" /\ r.state = "SCHEDULED" => q = r

\* Nobody but its creator holds a schedule that is pending, and the creator
\* holds it as it is.
HeldPending ==
    /\ \A o \in Operators : Creating(o) /\ IsScheduled(oid[o]) =>
          RowsOf(oid[o]) = {} /\ schedules[oid[o]] = oentry[o]
    /\ \A o \in Operators : Cancelling(o) =>
          ~IsScheduled(oid[o]) /\ oentry[o].state = "CANCELLED"
    /\ lpc \in {"number", "store"} => ~IsScheduled(lcur) /\ lentry.state # "SCHEDULED"

RestartInv == HeldExist /\ CreatedOnce /\ HeldPending /\ PendingSurvivesRestart

\* What is rebuilt depends on the rows alone.
LEMMA RebuiltSame ==
    ASSUME NEW s, RowsOf(s)' = RowsOf(s)
    PROVE  Rebuilt(s)' = Rebuilt(s)
BY DEF Rebuilt, Newest, UpdatedAfter

\* A new row is one of the schedule persist was called for.
LEMMA RowAdded ==
    ASSUME NEW s, NEW e, Persisted(s, e)
    PROVE  /\ \A x : x # s => RowsOf(x)' = RowsOf(x)
           /\ RowsOf(s)' \subseteq RowsOf(s) \union {Row(s, e)}
           /\ RowsOf(s) \subseteq RowsOf(s)'
           /\ e.at # 0 /\ RowsOf(s) = {} => RowsOf(s)' = {Row(s, e)}
<1>1. Row(s, e).id = s
  BY DEF Row
<1>2. RowsOf(s) = {} => ~Known(s)
  BY DEF Known
<1>3. rows' = rows \/ rows' = rows \union {Row(s, e)}
  BY DEF Persisted
<1>4. e.at # 0 /\ RowsOf(s) = {} => rows' = rows \union {Row(s, e)}
  BY <1>2 DEF Persisted
<1>5. \A x : x # s => RowsOf(x)' = RowsOf(x)
  BY <1>1, <1>3 DEF RowsOf
<1>6. RowsOf(s)' \subseteq RowsOf(s) \union {Row(s, e)} /\ RowsOf(s) \subseteq RowsOf(s)'
  BY <1>1, <1>3 DEF RowsOf
<1>7. e.at # 0 /\ RowsOf(s) = {} => RowsOf(s)' = {Row(s, e)}
  BY <1>1, <1>4 DEF RowsOf
<1> QED
  BY <1>5, <1>6, <1>7

\* Of a single row the rebuild makes its entry.
LEMMA RebuiltOne ==
    ASSUME NEW s, NEW r \in Rows, RowsOf(s)' = {r}
    PROVE  Rebuilt(s)' = {[state |-> r.state, at |-> r.at, updated |-> r.updated]}
<1>1. r.n \in Nat /\ r.updated \in Times
  BY DEF Rows
<1>2. r.n \in Int /\ r.updated \in Int
  <2>1. r.n \in Int
    BY <1>1
  <2>2. r.updated \in Int
    BY <1>1, NumbersAreInts
  <2> QED
    BY <2>1, <2>2
<1>3. ~UpdatedAfter(r, r)
  BY <1>2 DEF UpdatedAfter
<1>4. Newest(s)' = {r}
  BY <1>3 DEF Newest
<1> QED
  BY <1>4 DEF Rebuilt

\* If the rebuild may bring a schedule back as SCHEDULED, it brings that back:
\* of two rows with one time the other's would win.
LEMMA RebuiltPending ==
    ASSUME rows \subseteq Rows, NEW s \in Schedules,
           \A q, r \in RowsOf(s) : q.state = "SCHEDULED" /\ r.state = "SCHEDULED" => q = r,
           NEW e \in Rebuilt(s), e.state = "SCHEDULED"
    PROVE  Rebuilt(s) = {e}
<1>1. RowsOf(s) # {}
  BY NoScheduleTyped DEF Rebuilt
<1>2. PICK r \in Newest(s) : e = [state |-> r.state, at |-> r.at, updated |-> r.updated]
  BY <1>1 DEF Rebuilt
<1>3. \A q \in RowsOf(s) : q.n \in Int /\ q.updated \in Int
  <2>1. ASSUME NEW q \in Rows PROVE q.n \in Int /\ q.updated \in Int
    <3>1. q.n \in Nat /\ q.updated \in Times
      BY DEF Rows
    <3>2. q.n \in Int
      BY <3>1
    <3>3. q.updated \in Int
      BY <3>1, NumbersAreInts
    <3> QED
      BY <3>2, <3>3
  <2> QED
    BY <2>1 DEF RowsOf
<1>4. r \in RowsOf(s) /\ r.state = "SCHEDULED" /\ \A q \in RowsOf(s) : ~UpdatedAfter(q, r)
  BY <1>2 DEF Newest
<1>5. ASSUME NEW q \in Newest(s) PROVE q = r
  <2>1. q \in RowsOf(s) /\ ~UpdatedAfter(q, r) /\ ~UpdatedAfter(r, q)
    BY <1>4 DEF Newest
  <2>2. q.updated = r.updated
    BY <1>3, <1>4, <2>1 DEF UpdatedAfter
  <2>3. q.state = "SCHEDULED"
    BY <1>4, <2>1, <2>2 DEF UpdatedAfter
  <2> QED
    BY <1>4, <2>1, <2>3
<1>6. Newest(s) = {r}
  BY <1>2, <1>5
<1> QED
  BY <1>1, <1>2, <1>6 DEF Rebuilt

LEMMA RebuiltExists ==
    ASSUME rows \subseteq Rows, NEW s, RowsOf(s) # {}, NEW e \in Rebuilt(s)
    PROVE  e.state # "none"
<1>1. PICK r \in Newest(s) : e = [state |-> r.state, at |-> r.at, updated |-> r.updated]
  BY DEF Rebuilt
<1>2. r \in Rows
  BY DEF Newest, RowsOf
<1> QED
  BY <1>1, <1>2 DEF Rows, States

\* A step that keeps the rows and what everybody holds, and makes nothing
\* pending.
LEMMA RestartKept ==
    ASSUME RestartInv, UNCHANGED <<rows, oid, oentry>>,
           \A s \in Schedules : Exists(s) => Exists(s)',
           \A s \in Schedules : IsScheduled(s)' => schedules'[s] = schedules[s],
           \A o \in Operators : /\ Creating(o)' => Creating(o)
                                /\ Cancelling(o)' => Cancelling(o)
                                /\ opc'[o] = "idle" => opc[o] = "idle",
           \A o \in Operators : opc[o] # "idle" => oid[o] \in Schedules,
           Settling' => Exists(lcur)',
           lpc' \in {"number", "store"} => ~IsScheduled(lcur)' /\ lentry'.state # "SCHEDULED"
    PROVE  RestartInv'
<1>1. \A s : RowsOf(s)' = RowsOf(s) /\ Rebuilt(s)' = Rebuilt(s)
  BY RebuiltSame DEF RowsOf
<1>2. \A s \in Schedules : IsScheduled(s)' => IsScheduled(s)
  BY DEF IsScheduled
<1>3. \A o \in Operators : Creating(o) \/ Cancelling(o) => opc[o] # "idle"
  BY DEF Creating, Cancelling
<1>4. HeldExist'
  BY <1>1, <1>3 DEF RestartInv, HeldExist
<1>5. CreatedOnce'
  BY <1>1 DEF RestartInv, CreatedOnce
<1>6. HeldPending'
  BY <1>1, <1>2, <1>3 DEF RestartInv, HeldPending
<1>7. PendingSurvivesRestart'
  BY <1>1, <1>2 DEF RestartInv, PendingSurvivesRestart
<1> QED
  BY <1>4, <1>5, <1>6, <1>7 DEF RestartInv

LEMMA RestartCreate ==
    ASSUME SInv, RestartInv, NEW o \in Operators, NEW s \in Schedules, NEW at \in Times,
           Create(o, s, at)
    PROVE  RestartInv'
<1> DEFINE entry == [state |-> "SCHEDULED", at |-> at, updated |-> clock]
<1>1. /\ entry.state = "SCHEDULED" /\ entry.at \in Times
      /\ schedules' = [schedules EXCEPT ![s] = entry]
      /\ opc' = [opc EXCEPT ![o] = "create"] /\ oid' = [oid EXCEPT ![o] = s]
      /\ oentry' = [oentry EXCEPT ![o] = entry]
      /\ UNCHANGED <<rows, lpc, lcur, lentry>>
      /\ opc[o] = "idle" /\ ~Exists(s)
  BY DEF Create, SetSchedules, storeVars, loopVars
<1> HIDE DEF entry
<1>2. /\ schedules'[s] = entry /\ \A x \in Schedules : x # s => schedules'[x] = schedules[x]
      /\ opc'[o] = "create" /\ oid'[o] = s /\ oentry'[o] = entry
      /\ \A p \in Operators : p # o =>
            opc'[p] = opc[p] /\ oid'[p] = oid[p] /\ oentry'[p] = oentry[p]
  BY <1>1 DEF SInv, TypeOK, MapTypeOK, CallTypeOK
<1>3. /\ \A x : RowsOf(x)' = RowsOf(x) /\ Rebuilt(x)' = Rebuilt(x)
      /\ RowsOf(s) = {}
  BY <1>1, RebuiltSame DEF RowsOf, RestartInv, HeldExist
<1>4. /\ Exists(s)' /\ IsScheduled(s)'
      /\ \A x \in Schedules : x # s =>
            (Exists(x)' <=> Exists(x)) /\ (IsScheduled(x)' <=> IsScheduled(x))
  BY <1>1, <1>2 DEF Exists, IsScheduled
<1>5. /\ Creating(o)' /\ ~Cancelling(o)' /\ ~Creating(o) /\ ~Cancelling(o)
      /\ \A p \in Operators : p # o =>
            (Creating(p)' <=> Creating(p)) /\ (Cancelling(p)' <=> Cancelling(p))
  BY <1>1, <1>2 DEF Creating, Cancelling
<1>6. /\ \A p \in Operators : Creating(p) \/ Cancelling(p) => oid[p] \in Schedules /\ oid[p] # s
      /\ Settling => lcur \in Schedules /\ lcur # s
      /\ lpc \in {"number", "store"} => Settling
  BY <1>1 DEF RestartInv, HeldExist, SInv, HoldersOK, Creating, Cancelling, Settling
<1>7. Settling' <=> Settling
  BY <1>1 DEF Settling
<1>8. HeldExist'
  BY <1>1, <1>2, <1>3, <1>4, <1>5, <1>6, <1>7 DEF RestartInv, HeldExist
<1>9. CreatedOnce'
  BY <1>1, <1>2, <1>3, <1>5, <1>6 DEF RestartInv, CreatedOnce
<1>10. HeldPending'
  BY <1>1, <1>2, <1>3, <1>4, <1>5, <1>6 DEF RestartInv, HeldPending
<1>11. ASSUME NEW x \in Schedules, IsScheduled(x)', \A p \in Operators : oid'[p] # x
       PROVE  Rebuilt(x)' = {schedules'[x]}
  <2>1. x # s /\ IsScheduled(x) /\ schedules'[x] = schedules[x]
    BY <1>2, <1>4, <1>11
  <2>2. \A p \in Operators : oid[p] # x
    BY <1>1, <1>2, <1>11 DEF RestartInv, HeldExist
  <2> QED
    BY <1>3, <2>1, <2>2 DEF RestartInv, PendingSurvivesRestart
<1> QED
  BY <1>8, <1>9, <1>10, <1>11 DEF RestartInv, PendingSurvivesRestart

LEMMA RestartCancel ==
    ASSUME SInv, RestartInv, NEW o \in Operators, NEW s \in Schedules, Cancel(o, s)
    PROVE  RestartInv'
<1> DEFINE entry == [schedules[s] EXCEPT !.state = "CANCELLED", !.updated = clock]
<1>1. /\ schedules' = [schedules EXCEPT ![s] = entry]
      /\ opc' = [opc EXCEPT ![o] = "cancel"] /\ oid' = [oid EXCEPT ![o] = s]
      /\ oentry' = [oentry EXCEPT ![o] = entry]
      /\ UNCHANGED <<rows, lpc, lcur, lentry>>
      /\ opc[o] = "idle" /\ IsScheduled(s)
  BY DEF Cancel, SetSchedules, storeVars, loopVars
<1>2. entry.state = "CANCELLED"
  BY DEF SInv, TypeOK, MapTypeOK, Entries
<1> HIDE DEF entry
<1>3. /\ schedules'[s] = entry /\ \A x \in Schedules : x # s => schedules'[x] = schedules[x]
      /\ opc'[o] = "cancel" /\ oid'[o] = s /\ oentry'[o] = entry
      /\ \A p \in Operators : p # o =>
            opc'[p] = opc[p] /\ oid'[p] = oid[p] /\ oentry'[p] = oentry[p]
  BY <1>1 DEF SInv, TypeOK, MapTypeOK, CallTypeOK
<1>4. \A x : RowsOf(x)' = RowsOf(x) /\ Rebuilt(x)' = Rebuilt(x)
  BY <1>1, RebuiltSame DEF RowsOf
<1>5. /\ Exists(s)' /\ ~IsScheduled(s)'
      /\ \A x \in Schedules : x # s =>
            (Exists(x)' <=> Exists(x)) /\ (IsScheduled(x)' <=> IsScheduled(x))
  BY <1>2, <1>3 DEF Exists, IsScheduled
<1>6. /\ Cancelling(o)' /\ ~Creating(o)' /\ ~Creating(o) /\ ~Cancelling(o)
      /\ \A p \in Operators : p # o =>
            (Creating(p)' <=> Creating(p)) /\ (Cancelling(p)' <=> Cancelling(p))
  BY <1>1, <1>3 DEF Creating, Cancelling
<1>7. /\ \A p \in Operators : Creating(p) \/ Cancelling(p) => oid[p] \in Schedules
      /\ Settling => lcur \in Schedules
      /\ lpc \in {"number", "store"} => Settling
  BY DEF SInv, HoldersOK, Creating, Cancelling, Settling
<1>8. Settling' <=> Settling
  BY <1>1 DEF Settling
<1>9. HeldExist'
  BY <1>1, <1>3, <1>4, <1>5, <1>6, <1>7, <1>8 DEF RestartInv, HeldExist
<1>10. CreatedOnce'
  BY <1>3, <1>4, <1>6 DEF RestartInv, CreatedOnce
<1>11. HeldPending'
  BY <1>1, <1>2, <1>3, <1>4, <1>5, <1>6, <1>7 DEF RestartInv, HeldPending
<1>12. ASSUME NEW x \in Schedules, IsScheduled(x)', \A p \in Operators : oid'[p] # x
       PROVE  Rebuilt(x)' = {schedules'[x]}
  <2>1. x # s /\ IsScheduled(x) /\ schedules'[x] = schedules[x]
    BY <1>3, <1>5, <1>12
  <2>2. \A p \in Operators : oid[p] # x
    BY <1>1, <1>3, <1>12 DEF RestartInv, HeldExist
  <2> QED
    BY <1>4, <2>1, <2>2 DEF RestartInv, PendingSurvivesRestart
<1> QED
  BY <1>9, <1>10, <1>11, <1>12 DEF RestartInv, PendingSurvivesRestart

LEMMA RestartStored ==
    ASSUME Faults = {}, SInv, RestartInv, NEW o \in Operators,
           StoreCreated(o) \/ CreateFails(o) \/ StoreCancelled(o)
    PROVE  RestartInv'
<1>0. /\ Persisted(oid[o], oentry[o]) /\ Return(o) /\ UNCHANGED mapVars
      /\ Creating(o) \/ Cancelling(o)
  BY DEF StoreCreated, CreateFails, StoreCancelled, PersistFails, Creating, Cancelling
<1>s. PICK s \in Schedules : s = oid[o]
  BY <1>0 DEF SInv, HoldersOK, Creating, Cancelling
<1>1. /\ Persisted(s, oentry[o]) /\ Return(o) /\ UNCHANGED mapVars
      /\ Creating(o) \/ Cancelling(o)
  BY <1>0, <1>s
<1>2. s \in Schedules /\ oentry[o] \in Entries /\ Exists(s)
  BY <1>1, <1>s DEF SInv, TypeOK, CallTypeOK, RestartInv, HeldExist
<1> DEFINE row == Row(s, oentry[o])
<1>3. row.state = oentry[o].state /\ row.at = oentry[o].at /\ row.updated = oentry[o].updated
  BY DEF Row
<1> HIDE DEF row
<1>4. /\ \A x : x # s => RowsOf(x)' = RowsOf(x) /\ Rebuilt(x)' = Rebuilt(x)
      /\ RowsOf(s)' \subseteq RowsOf(s) \union {row}
      /\ oentry[o].at # 0 /\ RowsOf(s) = {} => RowsOf(s)' = {row}
  <2>1. /\ \A x : x # s => RowsOf(x)' = RowsOf(x)
        /\ RowsOf(s)' \subseteq RowsOf(s) \union {row}
        /\ oentry[o].at # 0 /\ RowsOf(s) = {} => RowsOf(s)' = {row}
    BY <1>1, RowAdded DEF row
  <2>2. \A x : x # s => Rebuilt(x)' = Rebuilt(x)
    BY <2>1, RebuiltSame
  <2> QED
    BY <2>1, <2>2
<1>5. /\ opc'[o] = "idle" /\ oid'[o] = 0 /\ 0 \notin Schedules
      /\ \A p \in Operators : p # o =>
            opc'[p] = opc[p] /\ oid'[p] = oid[p] /\ oentry'[p] = oentry[p]
      /\ UNCHANGED <<schedules, lpc, lcur, lentry>>
  BY <1>1, SchedulerAssumption DEF Return, mapVars, loopVars, SInv, TypeOK, CallTypeOK
<1> USE <1>s
<1>6. /\ ~Creating(o)' /\ ~Cancelling(o)'
      /\ \A p \in Operators : p # o =>
            (Creating(p)' <=> Creating(p)) /\ (Cancelling(p)' <=> Cancelling(p))
  BY <1>5 DEF Creating, Cancelling
<1>7. \A x : (Exists(x)' <=> Exists(x)) /\ (IsScheduled(x)' <=> IsScheduled(x))
  BY <1>5 DEF Exists, IsScheduled
<1>8. Settling' <=> Settling
  BY <1>5 DEF Settling
<1>9. HeldExist'
  <2>1. \A x \in Schedules : RowsOf(x)' # {} => Exists(x)'
    BY <1>2, <1>4, <1>7 DEF RestartInv, HeldExist
  <2>2. \A p \in Operators : Creating(p)' \/ Cancelling(p)' => Exists(oid[p])'
    BY <1>5, <1>6, <1>7 DEF RestartInv, HeldExist
  <2>3. \A p \in Operators : (Creating(p)' \/ Cancelling(p)') => oid'[p] = oid[p]
    BY <1>5, <1>6
  <2>4. \A p \in Operators : opc'[p] = "idle" => oid'[p] \notin Schedules
    BY <1>5 DEF RestartInv, HeldExist
  <2> QED
    BY <1>5, <1>7, <1>8, <2>1, <2>2, <2>3, <2>4 DEF RestartInv, HeldExist, Exists
<1>10. CASE Creating(o)
  <2>1. /\ oentry[o].state = "SCHEDULED" /\ oentry[o].at \in Times
        /\ \A r \in RowsOf(s) : r.state # "SCHEDULED"
        /\ \A p \in Operators : p # o /\ Creating(p) => oid[p] # s
        /\ IsScheduled(s) => RowsOf(s) = {} /\ schedules[s] = oentry[o]
    BY <1>10 DEF RestartInv, CreatedOnce, HeldPending
  <2>2. CreatedOnce'
    BY <1>2, <1>4, <1>5, <1>6, <2>1 DEF RestartInv, CreatedOnce
  <2>3. HeldPending'
    BY <1>4, <1>5, <1>6, <1>7, <2>1 DEF RestartInv, HeldPending
  <2>4. IsScheduled(s)' => Rebuilt(s)' = {schedules'[s]}
    <3> SUFFICES ASSUME IsScheduled(s)' PROVE Rebuilt(s)' = {schedules'[s]}
      OBVIOUS
    <3>1. oentry[o].at # 0
      BY <2>1 DEF Times
    <3>2. RowsOf(s)' = {row} /\ schedules'[s] = oentry[o]
      BY <1>4, <1>5, <1>7, <2>1, <3>1
    <3>3. rows' \subseteq Rows
      <4>1. oentry[o].state \in States /\ oentry[o].updated \in Times
        BY <1>10 DEF SInv, HoldersOK, Creating
      <4> QED
        BY <1>1, <1>2, <4>1, PersistedTyped DEF SInv, TypeOK, StoreTypeOK, MapTypeOK
    <3>4. row \in Rows
      BY <3>2, <3>3 DEF RowsOf
    <3>5. Rebuilt(s)' = {[state |-> row.state, at |-> row.at, updated |-> row.updated]}
      BY <3>2, <3>4, RebuiltOne
    <3>6. oentry[o] = [state |-> oentry[o].state, at |-> oentry[o].at, updated |-> oentry[o].updated]
      BY <1>2 DEF Entries
    <3> QED
      BY <1>3, <3>2, <3>5, <3>6
  <2>5. PendingSurvivesRestart'
    BY <1>4, <1>5, <1>7, <2>4 DEF RestartInv, PendingSurvivesRestart
  <2> QED
    BY <1>9, <2>2, <2>3, <2>5 DEF RestartInv
<1>11. CASE Cancelling(o)
  <2>1. ~IsScheduled(s) /\ oentry[o].state = "CANCELLED"
    BY <1>11 DEF RestartInv, HeldPending
  <2>2. CreatedOnce'
    BY <1>2, <1>3, <1>4, <1>5, <1>6, <2>1 DEF RestartInv, CreatedOnce
  <2>3. HeldPending'
    BY <1>4, <1>5, <1>6, <1>7, <2>1 DEF RestartInv, HeldPending
  <2>4. PendingSurvivesRestart'
    BY <1>4, <1>5, <1>7, <2>1 DEF RestartInv, PendingSurvivesRestart
  <2> QED
    BY <1>9, <2>2, <2>3, <2>4 DEF RestartInv
<1> QED
  BY <1>1, <1>10, <1>11

LEMMA RestartLoop ==
    ASSUME Faults = {}, SInv, RestartInv, Dispatching
    PROVE  RestartInv'
<1>1. \A o \in Operators : opc[o] # "idle" => oid[o] \in Schedules
  BY DEF SInv, HoldersOK
<1>2. Settling => lcur \in Schedules
  BY DEF SInv, HoldersOK, Settling
<1>3. ASSUME UNCHANGED <<rows, schedules, callVars>>, Settling' => Exists(lcur)',
             lpc' \in {"number", "store"} => ~IsScheduled(lcur)' /\ lentry'.state # "SCHEDULED"
      PROVE  RestartInv'
  <2>1. \A s : (Exists(s)' <=> Exists(s)) /\ (IsScheduled(s)' <=> IsScheduled(s))
    BY <1>3 DEF Exists, IsScheduled
  <2>2. \A o \in Operators : (Creating(o)' <=> Creating(o)) /\ (Cancelling(o)' <=> Cancelling(o))
    BY <1>3 DEF callVars, Creating, Cancelling
  <2> QED
    BY <1>1, <1>3, <2>1, <2>2, RestartKept DEF callVars
<1>4. ASSUME NEW e \in pending, TakeDue(e) PROVE RestartInv'
  <2>1. schedules[e.id].state = "SCHEDULED"
    BY <1>4, TopIsLive DEF TakeDue, Live, SInv, TypeOK, MapTypeOK
  <2> QED
    BY <1>3, <1>4, <2>1 DEF TakeDue, storeVars, Exists
<1>5. CASE NothingDue
  BY <1>3, <1>5 DEF NothingDue, storeVars, Settling
<1>6. CASE Submit
  <2>1. Exists(lcur)
    BY <1>6 DEF Submit, Settling, RestartInv, HeldExist
  <2> QED
    BY <1>3, <1>6, <2>1 DEF Submit, mapVars, Exists
<1>7. CASE LoopNumber
  <2>1. Exists(lcur) /\ ~IsScheduled(lcur) /\ lentry.state # "SCHEDULED"
    BY <1>7 DEF LoopNumber, Settling, RestartInv, HeldExist, HeldPending
  <2> QED
    BY <1>3, <1>7, <2>1 DEF LoopNumber, storeVars, mapVars, Exists, IsScheduled
<1>8. CASE Settle
  <2> DEFINE outcome == IF lpc = "expire" THEN "EXPIRED" ELSE "DISPATCHED"
             entry == [schedules[lcur] EXCEPT !.state = outcome, !.updated = tick]
  <2>1. lcur \in Schedules
    BY <1>2, <1>8 DEF Settle, Settling
  <2>2. entry.state \notin {"SCHEDULED", "none"}
    BY <2>1 DEF SInv, TypeOK, MapTypeOK, Entries
  <2>3. /\ schedules' = [schedules EXCEPT ![lcur] = entry]
        /\ lentry' = entry /\ lpc' = "number"
        /\ UNCHANGED <<rows, lcur, callVars>>
    BY <1>8 DEF Settle, SetSchedules, storeVars
  <2> HIDE DEF entry
  <2>4. /\ schedules'[lcur] = entry
        /\ \A s \in Schedules : s # lcur => schedules'[s] = schedules[s]
    BY <2>1, <2>3 DEF SInv, TypeOK, MapTypeOK
  <2>5. /\ \A s \in Schedules : Exists(s) => Exists(s)'
        /\ \A s \in Schedules : IsScheduled(s)' => schedules'[s] = schedules[s]
    BY <2>2, <2>4 DEF Exists, IsScheduled
  <2>6. Exists(lcur)' /\ ~IsScheduled(lcur)' /\ lentry'.state # "SCHEDULED"
    BY <2>2, <2>3, <2>4 DEF Exists, IsScheduled
  <2>7. \A o \in Operators : (Creating(o)' <=> Creating(o)) /\ (Cancelling(o)' <=> Cancelling(o))
    BY <2>3 DEF callVars, Creating, Cancelling
  <2> QED
    BY <1>1, <2>3, <2>5, <2>6, <2>7, RestartKept DEF callVars
<1>9. CASE StoreSettled
  <2>1. /\ Persisted(lcur, lentry) /\ lcur \in Schedules /\ Exists(lcur)
        /\ ~IsScheduled(lcur) /\ lentry.state # "SCHEDULED"
        /\ UNCHANGED <<mapVars, callVars>> /\ lpc' = "look"
    BY <1>2, <1>9 DEF StoreSettled, PersistFails, Settling, RestartInv, HeldExist, HeldPending
  <2>s. PICK s \in Schedules : s = lcur
    BY <2>1
  <2> DEFINE row == Row(s, lentry)
  <2>2. row.state # "SCHEDULED"
    BY <2>1 DEF Row
  <2> HIDE DEF row
  <2>3. /\ \A x : x # s => RowsOf(x)' = RowsOf(x) /\ Rebuilt(x)' = Rebuilt(x)
        /\ \A x : \A r \in RowsOf(x)' : r.state = "SCHEDULED" => r \in RowsOf(x)
    <3>1. /\ \A x : x # s => RowsOf(x)' = RowsOf(x)
          /\ RowsOf(s)' \subseteq RowsOf(s) \union {row}
      BY <2>1, <2>s, RowAdded DEF row
    <3>2. \A x : x # s => Rebuilt(x)' = Rebuilt(x)
      BY <3>1, RebuiltSame
    <3>3. \A x : \A r \in RowsOf(x)' : r.state = "SCHEDULED" => r \in RowsOf(x)
      BY <2>2, <3>1
    <3> QED
      BY <3>1, <3>2, <3>3
  <2>4. /\ \A x : (Exists(x)' <=> Exists(x)) /\ (IsScheduled(x)' <=> IsScheduled(x))
        /\ schedules' = schedules /\ opc' = opc /\ oid' = oid /\ oentry' = oentry
    BY <2>1 DEF mapVars, callVars, Exists, IsScheduled
  <2>5. \A o \in Operators : (Creating(o)' <=> Creating(o)) /\ (Cancelling(o)' <=> Cancelling(o))
    BY <2>4 DEF Creating, Cancelling
  <2>6. ~Settling' /\ lpc' \notin {"number", "store"}
    BY <2>1 DEF Settling
  <2>7. HeldExist'
    <3>1. \A o \in Operators : (Creating(o)' \/ Cancelling(o)') => Exists(oid[o])'
      BY <2>4, <2>5 DEF RestartInv, HeldExist
    <3>2. \A x \in Schedules : RowsOf(x)' # {} => Exists(x)'
      BY <2>1, <2>s, <2>3, <2>4 DEF RestartInv, HeldExist
    <3> QED
      BY <2>4, <2>6, <3>1, <3>2 DEF RestartInv, HeldExist, Exists
  <2>8. CreatedOnce'
    <3>1. \A o \in Operators : Creating(o) =>
              \A r \in RowsOf(oid[o])' : r.state # "SCHEDULED"
      BY <2>3, <2>4 DEF RestartInv, CreatedOnce
    <3>2. \A x \in Schedules : \A q, r \in RowsOf(x)' :
              q.state = "SCHEDULED" /\ r.state = "SCHEDULED" => q = r
      BY <2>3 DEF RestartInv, CreatedOnce
    <3> QED
      BY <2>4, <2>5, <3>1, <3>2 DEF RestartInv, CreatedOnce
  <2>9. HeldPending'
    BY <2>1, <2>s, <2>3, <2>4, <2>5, <2>6 DEF RestartInv, HeldPending
  <2>10. PendingSurvivesRestart'
    BY <2>1, <2>s, <2>3, <2>4 DEF RestartInv, PendingSurvivesRestart
  <2> QED
    BY <2>7, <2>8, <2>9, <2>10 DEF RestartInv
<1> QED
  BY <1>4, <1>5, <1>6, <1>7, <1>8, <1>9 DEF Dispatching

LEMMA RestartCrash ==
    ASSUME SInv, RestartInv, Crash
    PROVE  RestartInv'
<1>1. /\ \A s \in Schedules : schedules'[s] \in Rebuilt(s)
      /\ rows' = rows /\ lpc' = "idle" /\ rows \subseteq Rows
      /\ \A o \in Operators : opc'[o] = "idle" /\ oid'[o] = 0
  BY DEF Crash, storeVars, SInv, TypeOK, StoreTypeOK
<1>2. \A s : RowsOf(s)' = RowsOf(s) /\ Rebuilt(s)' = Rebuilt(s)
  BY <1>1, RebuiltSame DEF RowsOf
<1>3. \A o \in Operators : ~Creating(o)' /\ ~Cancelling(o)'
  BY <1>1 DEF Creating, Cancelling
<1>4. ~Settling' /\ lpc' \notin {"number", "store"} /\ 0 \notin Schedules
  BY <1>1, SchedulerAssumption DEF Settling
<1>5. HeldExist'
  BY <1>1, <1>2, <1>3, <1>4, RebuiltExists DEF HeldExist, Exists
<1>6. CreatedOnce' /\ HeldPending'
  BY <1>2, <1>3, <1>4 DEF RestartInv, CreatedOnce, HeldPending
<1>7. PendingSurvivesRestart'
  BY <1>1, <1>2, RebuiltPending DEF RestartInv, CreatedOnce, PendingSurvivesRestart, IsScheduled
<1> QED
  BY <1>5, <1>6, <1>7 DEF RestartInv

LEMMA RestartNext == Faults = {} /\ SInv /\ RestartInv /\ [Next]_vars => RestartInv'
<1> SUFFICES ASSUME Faults = {}, SInv, RestartInv, [Next]_vars PROVE RestartInv'
  OBVIOUS
<1>1. \A o \in Operators : opc[o] # "idle" => oid[o] \in Schedules
  BY DEF SInv, HoldersOK
<1>2. Settling => lcur \in Schedules
  BY DEF SInv, HoldersOK, Settling
<1>3. CASE UNCHANGED <<rows, schedules, callVars, lpc, lcur, lentry>>
  <2>1. \A s : (Exists(s)' <=> Exists(s)) /\ (IsScheduled(s)' <=> IsScheduled(s))
    BY <1>3 DEF Exists, IsScheduled
  <2>2. \A o \in Operators : (Creating(o)' <=> Creating(o)) /\ (Cancelling(o)' <=> Cancelling(o))
    BY <1>3 DEF callVars, Creating, Cancelling
  <2>3. Settling' => Exists(lcur)'
    BY <1>3, <2>1 DEF Settling, RestartInv, HeldExist
  <2>4. lpc' \in {"number", "store"} => ~IsScheduled(lcur)' /\ lentry'.state # "SCHEDULED"
    BY <1>3, <2>1 DEF RestartInv, HeldPending
  <2> QED
    BY <1>1, <1>3, <2>1, <2>2, <2>3, <2>4, RestartKept DEF callVars
<1>4. CASE \E t \in tick .. clock : Tick(t)
  BY <1>1, <1>4, RestartKept
     DEF Tick, storeVars, mapVars, callVars, Exists, IsScheduled, Creating, Cancelling, Settling
<1>5. ASSUME NEW o \in Operators, CallNumber(o) PROVE RestartInv'
  <2>1. \A p \in Operators : opc'[p] = opc[p] \/ (p = o /\ opc[o] \in {"create", "cancel"}
                               /\ opc'[o] = IF opc[o] = "create" THEN "storeCreate" ELSE "storeCancel")
    BY <1>5 DEF CallNumber, SInv, TypeOK, CallTypeOK
  <2>2. \A p \in Operators : /\ Creating(p)' => Creating(p)
                             /\ Cancelling(p)' => Cancelling(p)
                             /\ opc'[p] = "idle" => opc[p] = "idle"
    BY <2>1 DEF Creating, Cancelling
  <2>3. UNCHANGED <<rows, schedules, lpc, lcur, lentry, oid, oentry>>
    BY <1>5 DEF CallNumber, storeVars, mapVars, loopVars
  <2>4. \A s : (Exists(s)' <=> Exists(s)) /\ (IsScheduled(s)' <=> IsScheduled(s))
    BY <2>3 DEF Exists, IsScheduled
  <2>5. Settling' => Exists(lcur)'
    BY <2>3, <2>4 DEF Settling, RestartInv, HeldExist
  <2>6. lpc' \in {"number", "store"} => ~IsScheduled(lcur)' /\ lentry'.state # "SCHEDULED"
    BY <2>3, <2>4 DEF RestartInv, HeldPending
  <2> QED
    BY <1>1, <2>2, <2>3, <2>4, <2>5, <2>6, RestartKept
<1>6. CASE Advance
  BY <1>3, <1>6 DEF Advance, storeVars, mapVars, loopVars
<1>7. CASE UNCHANGED vars
  BY <1>3, <1>7 DEF vars, storeVars, mapVars, loopVars
<1> QED
  BY <1>4, <1>5, <1>6, <1>7, RestartCreate, RestartCancel, RestartStored, RestartLoop, RestartCrash
     DEF Next, Call

LEMMA RestartInit == Init => RestartInv
<1> SUFFICES ASSUME Init PROVE RestartInv
  OBVIOUS
<1>1. \A s \in Schedules : ~IsScheduled(s) /\ RowsOf(s) = {}
  BY NoScheduleTyped DEF Init, IsScheduled, RowsOf
<1>2. 0 \notin Schedules
  BY SchedulerAssumption
<1>3. \A o \in Operators : ~Creating(o) /\ ~Cancelling(o) /\ oid[o] = 0
  BY DEF Init, Creating, Cancelling
<1>4. ~Settling /\ lpc \notin {"number", "store"}
  BY DEF Init, Settling
<1> QED
  BY <1>1, <1>2, <1>3, <1>4
     DEF RestartInv, HeldExist, CreatedOnce, HeldPending, PendingSurvivesRestart

(* While the boundary stores what it is given: numbers start again at 0     *)
(* after a restart, two calls may take the same one, and an outcome may be  *)
(* stamped before the creation; yet a schedule that is pending, and whose   *)
(* creation was answered, comes back from every restart as it is.           *)
THEOREM PendingComesBack ==
    ASSUME Faults = {}
    PROVE  Spec => []PendingSurvivesRestart
<1>1. SInv /\ RestartInv /\ [Next]_vars => RestartInv'
  BY RestartNext
<1>2. RestartInv => PendingSurvivesRestart
  BY DEF RestartInv
<1> QED
  BY <1>1, <1>2, RestartInit, SchedulerTyped, PTL DEF Spec
=============================================================================
