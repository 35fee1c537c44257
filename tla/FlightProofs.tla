--------------------------- MODULE FlightProofs ----------------------------
(***************************************************************************)
(* Proofs about the flight: MissionRuntime, MissionUplink, MissionTimeline *)
(* and TelemetryLoop, for any lengths of the phases and of the injection   *)
(* burn, any number of metrics, any sizes of the archives and any bounds   *)
(* on steps, commands, burns and launches.                                 *)
(***************************************************************************)
EXTENDS MissionRuntime, MissionUplink, MissionTimeline, TelemetryLoop,
        WellFoundedInduction, TLAPS
-----------------------------------------------------------------------------
\* What a stage that is done leaves behind: it burned, and in an event-driven
\* mission nothing moves on to another phase any more.
StagesDone ==
    /\ \A s \in mission.executed : burns[s] > 0
    /\ mission.driven /\ (\E s \in OrbitStages : burns[s] > 0) => mission.phase = "LunarOrbit"

RuntimeInv == RuntimeTypeOK /\ StagesDone
-----------------------------------------------------------------------------
(* The engine *)

LEMMA FreshEngine ==
    ASSUME NEW driven \in BOOLEAN
    PROVE  NewEngine(driven) \in EngineType
BY DEF NewEngine, EngineType, MissionPhases, NotPlanned, OrbitStages

\* No timer and no event ends the lunar orbit of an event-driven mission, and
\* no step touches the stages.
LEMMA EngineStepTyped ==
    ASSUME NEW m \in EngineType, NEW draw \in EngineDraws, Possible(m, draw)
    PROVE  /\ EngineAfter(m, draw) \in EngineType
           /\ EngineAfter(m, draw).driven = m.driven
           /\ EngineAfter(m, draw).executed = m.executed
           /\ m.driven /\ m.phase = "LunarOrbit" => EngineAfter(m, draw).phase = "LunarOrbit"
<1> DEFINE p == Planned(m)
<1>1. /\ p \in EngineType /\ p.driven = m.driven /\ p.executed = m.executed /\ p.phase = m.phase
      /\ Injecting(m) => p.burn \in Nat
      /\ p.fuel = m.fuel /\ p.firing = m.firing
  BY EngineAssumption DEF Planned, EngineType, Injecting, NotPlanned
<1> DEFINE c == Counted(p)
<1>2. /\ c \in EngineType /\ c.driven = m.driven /\ c.executed = m.executed
      /\ c.phase = m.phase /\ c.burn = p.burn
  <2> HIDE DEF p
  <2> DEFINE e == IF Injecting(p) \/ (p.driven /\ ~Propagates(p)) THEN p.elapsed ELSE p.elapsed + 1
  <2>1. e \in Nat /\ p.sequence + 1 \in Nat
    BY <1>1 DEF EngineType
  <2>2. c = [p EXCEPT !.sequence = p.sequence + 1, !.elapsed = e]
    BY DEF Counted
  <2> HIDE DEF e, c
  <2> QED
    BY <1>1, <2>1, <2>2 DEF EngineType
<1>3. CASE draw.throws
  BY <1>2, <1>3 DEF EngineAfter
<1>4. CASE ~draw.throws
  <2> DEFINE burned == IF Injecting(m) /\ Propagates(m)
                       THEN [c EXCEPT !.burn = @ - 1, !.elapsed = @ + 1] ELSE c
  <2>1. /\ burned \in EngineType /\ burned.driven = m.driven /\ burned.executed = m.executed
        /\ burned.phase = m.phase
    <3>1. CASE Injecting(m) /\ Propagates(m)
      <4>1. c.burn \in Nat /\ c.burn # 0
        BY <1>1, <1>2, <3>1 DEF Propagates, BurnIsOver
      <4>2. c.burn - 1 \in Nat
        BY <4>1
      <4>3. burned = [c EXCEPT !.burn = c.burn - 1, !.elapsed = c.elapsed + 1]
        BY <3>1
      <4> HIDE DEF c, burned
      <4>4. c.elapsed + 1 \in Nat
        BY <1>2 DEF EngineType
      <4> QED
        BY <1>2, <4>2, <4>3, <4>4 DEF EngineType
    <3>2. CASE ~(Injecting(m) /\ Propagates(m))
      BY <1>2, <3>2
    <3> QED
      BY <3>1, <3>2
  <2> HIDE DEF burned
  <2> DEFINE moved == [burned EXCEPT !.fuel = draw.fuel,
                                     !.firing = IF Propagates(m) THEN Fires(m) ELSE @]
  <2>2. draw.fuel \in BOOLEAN /\ Fires(m) \in BOOLEAN
    BY DEF EngineDraws, Fires, Commanded, EngineType
  <2>3. /\ moved \in EngineType /\ moved.driven = m.driven /\ moved.executed = m.executed
        /\ moved.phase = m.phase
    BY <2>1, <2>2 DEF EngineType
  <2> HIDE DEF moved
  <2> DEFINE ended == IF PhaseIsOver(m, draw)
                      THEN [moved EXCEPT !.phase = NextPhase[m.phase], !.elapsed = 0,
                                !.burn = IF m.phase = "EarthOrbit" THEN NotPlanned ELSE @]
                      ELSE moved
  <2>4. /\ ended \in EngineType /\ ended.driven = m.driven /\ ended.executed = m.executed
        /\ m.driven /\ m.phase = "LunarOrbit" => ended.phase = "LunarOrbit"
    <3>1. CASE PhaseIsOver(m, draw)
      <4>1. m.phase \in TimedPhases
        BY <3>1 DEF PhaseIsOver, BurnIsOver, Injecting, TimedPhases
      <4>2. NextPhase[m.phase] \in MissionPhases
        BY <4>1 DEF TimedPhases, NextPhase, MissionPhases
      <4>3. ~(m.driven /\ m.phase = "LunarOrbit")
        BY <3>1 DEF PhaseIsOver, BurnIsOver, Injecting
      <4> QED
        BY <2>3, <3>1, <4>2, <4>3 DEF EngineType
    <3>2. CASE ~PhaseIsOver(m, draw)
      BY <2>3, <3>2
    <3> QED
      BY <3>1, <3>2
  <2>5. EngineAfter(m, draw) = Refreshed(ended)
    BY <1>4 DEF EngineAfter, EngineStepped, ended, moved, burned
  <2> HIDE DEF ended
  <2> QED
    BY <2>4, <2>5 DEF Refreshed, EngineType
<1> QED
  BY <1>3, <1>4

\* What a call of a stage may do to the engine.
StageEffect(m, burn, outcome, after) ==
    /\ after \in EngineType
    /\ after.driven = m.driven /\ after.phase = m.phase /\ after.sequence = m.sequence
    /\ \/ after.executed = m.executed
       \/ /\ after.executed = m.executed \union {burn}
          /\ StageBurns(m, burn) /\ outcome # "throws before"

LEMMA StageTyped ==
    ASSUME NEW m \in EngineType, NEW burn \in OrbitStages, NEW outcome \in StageOutcomes,
           NEW fuel \in BOOLEAN
    PROVE  StageEffect(m, burn, outcome, StageAfter(m, burn, outcome, fuel))
<1> DEFINE after == StageAfter(m, burn, outcome, fuel)
<1> USE DEF StageEffect
<1>1. CASE ~StageBurns(m, burn) \/ outcome = "throws before"
  BY <1>1 DEF StageAfter
<1>2. CASE StageBurns(m, burn) /\ outcome = "throws between"
  <2>1. after = [m EXCEPT !.fuel = fuel, !.firing = FALSE]
    BY <1>2 DEF StageAfter
  <2> QED
    BY <2>1 DEF EngineType
<1>3. CASE StageBurns(m, burn) /\ outcome \notin {"throws before", "throws between"}
  <2> DEFINE done == [m EXCEPT !.fuel = fuel, !.executed = @ \union {burn},
                          !.firing = burn = "insertion" /\ fuel,
                          !.failed = IF outcome = "missed" THEN @ \union {burn} ELSE @]
  <2>1. after = Refreshed(done)
    BY <1>3 DEF StageAfter
  <2>2. /\ done \in EngineType /\ done.executed = m.executed \union {burn}
        /\ done.driven = m.driven /\ done.phase = m.phase /\ done.sequence = m.sequence
    <3>1. (burn = "insertion" /\ fuel) \in BOOLEAN
      OBVIOUS
    <3> QED
      BY <3>1 DEF EngineType
  <2> HIDE DEF done
  <2> DEFINE report == [phase |-> done.phase, sequence |-> done.sequence]
  <2>3. report \in [phase : MissionPhases, sequence : Nat]
    BY <2>2 DEF EngineType
  <2>4. after = [done EXCEPT !.report = report]
    BY <2>1 DEF Refreshed
  <2> HIDE DEF report, after
  <2>5. /\ after \in EngineType /\ after.executed = done.executed
        /\ after.driven = done.driven /\ after.phase = done.phase /\ after.sequence = done.sequence
    BY <2>2, <2>3, <2>4 DEF EngineType
  <2>6. StageEffect(m, burn, outcome, after)
    BY <1>3, <2>2, <2>5
  <2> QED
    BY <2>6 DEF after
<1> QED
  BY <1>1, <1>2, <1>3
-----------------------------------------------------------------------------
(* The controller *)

LEMMA RuntimeInitInv == RuntimeInit => RuntimeInv
<1> SUFFICES ASSUME RuntimeInit PROVE RuntimeInv
  OBVIOUS
<1>1. PICK driven \in BOOLEAN : mission = NewEngine(driven)
  BY DEF RuntimeInit
<1>2. mission \in EngineType /\ mission.executed = {} /\ mission.report \in [phase : MissionPhases, sequence : Nat]
  BY <1>1, FreshEngine DEF NewEngine, EngineType
<1> QED
  BY <1>2, RuntimeAssumption DEF RuntimeInv, RuntimeTypeOK, StagesDone, RuntimeInit, RuntimeStates

\* A transition of the controller touches neither the engine nor the burns.
LEMMA MovesInv ==
    ASSUME RuntimeInv, NEW from, NEW to \in RuntimeStates, Moves(from, to) PROVE RuntimeInv'
<1>1. controlSequence' \in 0..MaxControl
  BY RuntimeAssumption DEF Moves, RuntimeInv, RuntimeTypeOK
<1>2. mission.report \in [phase : MissionPhases, sequence : Nat]
  BY DEF RuntimeInv, RuntimeTypeOK, EngineType
<1>3. RuntimeTypeOK'
  BY <1>1, <1>2 DEF Moves, RuntimeInv, RuntimeTypeOK
<1> QED
  BY <1>3 DEF Moves, RuntimeInv, StagesDone

LEMMA ResetInv == ASSUME RuntimeInv, ResetRuntime PROVE RuntimeInv'
<1>1. mission.driven \in BOOLEAN
  BY DEF RuntimeInv, RuntimeTypeOK, EngineType
<1>2. /\ mission' \in EngineType /\ mission'.executed = {}
      /\ NewEngine(mission.driven).report \in [phase : MissionPhases, sequence : Nat]
  BY <1>1, FreshEngine DEF ResetRuntime, NewEngine, EngineType
<1> QED
  BY <1>2, RuntimeAssumption
  DEF ResetRuntime, RuntimeInv, RuntimeTypeOK, StagesDone, RuntimeStates

LEMMA StepInv ==
    ASSUME RuntimeInv, NEW draw \in EngineDraws, StepRuntime(draw) PROVE RuntimeInv'
<1> USE DEF RuntimeInv
<1>1. mission.report \in [phase : MissionPhases, sequence : Nat]
  BY DEF RuntimeTypeOK, EngineType
<1>2. CASE runtime \in {"Ready", "Paused"}
  BY <1>1, <1>2 DEF StepRuntime, RuntimeTypeOK, StagesDone
<1>3. CASE runtime = "Running"
  <2>1. /\ Possible(mission, draw) /\ mission' = EngineAfter(mission, draw)
        /\ runtime' = StateAfterStep(mission', draw.throws)
        /\ controlSequence < MaxControl
        /\ controlSequence' = IF runtime' = "Running" THEN controlSequence ELSE controlSequence + 1
        /\ shown' = mission'.report /\ burns' = burns
    BY <1>3 DEF StepRuntime
  <2>2. /\ mission' \in EngineType /\ mission'.driven = mission.driven
        /\ mission'.executed = mission.executed
        /\ mission.driven /\ mission.phase = "LunarOrbit" => mission'.phase = "LunarOrbit"
    BY <2>1, EngineStepTyped DEF RuntimeTypeOK
  <2>3. runtime' \in RuntimeStates
    BY <2>1 DEF StateAfterStep, RuntimeStates
  <2>4. controlSequence' \in 0..MaxControl
    BY <2>1, RuntimeAssumption DEF RuntimeTypeOK
  <2>5. mission'.report \in [phase : MissionPhases, sequence : Nat]
    BY <2>2 DEF EngineType
  <2>6. RuntimeTypeOK'
    BY <2>1, <2>2, <2>3, <2>4, <2>5 DEF RuntimeTypeOK
  <2> QED
    BY <2>1, <2>2, <2>6 DEF StagesDone
<1> QED
  BY <1>2, <1>3 DEF StepRuntime

LEMMA RunStageInv ==
    ASSUME RuntimeInv, NEW burn \in OrbitStages, NEW outcome \in StageOutcomes,
           NEW fuel \in BOOLEAN, RunStage(burn, outcome, fuel)
    PROVE  RuntimeInv'
<1> USE DEF RuntimeInv
<1>1. StageEffect(mission, burn, outcome, mission')
  BY StageTyped DEF RunStage, RuntimeTypeOK
<1>2. CASE StageBurns(mission, burn) /\ outcome # "throws before"
  <2>1. burns' = [burns EXCEPT ![burn] = burns[burn] + 1]
    BY <1>2 DEF RunStage
  <2>2. /\ burns' \in [OrbitStages -> Nat] /\ burns'[burn] > 0
        /\ \A s \in OrbitStages : burns[s] > 0 => burns'[s] > 0
    BY <2>1 DEF RuntimeTypeOK
  <2>3. mission.phase = "LunarOrbit"
    BY <1>2 DEF StageBurns, StageAllowed
  <2>4. mission.executed \subseteq OrbitStages
    BY DEF RuntimeTypeOK, EngineType
  <2>5. StagesDone'
    BY <1>1, <2>2, <2>3, <2>4 DEF StagesDone, StageEffect
  <2> QED
    BY <1>1, <2>2, <2>5 DEF RunStage, RuntimeTypeOK, StageEffect
<1>3. CASE ~(StageBurns(mission, burn) /\ outcome # "throws before")
  BY <1>1, <1>3 DEF RunStage, StageEffect, RuntimeTypeOK, StagesDone
<1> QED
  BY <1>2, <1>3

LEMMA RuntimeNextInv == RuntimeInv /\ [RuntimeNext]_runtimeVars => RuntimeInv'
<1> SUFFICES ASSUME RuntimeInv, [RuntimeNext]_runtimeVars PROVE RuntimeInv'
  OBVIOUS
<1>1. CASE Start \/ Pause \/ Resume \/ Abort
  BY <1>1, MovesInv DEF Start, Pause, Resume, Abort, RuntimeStates
<1>2. CASE UNCHANGED runtimeVars
  BY <1>2 DEF runtimeVars, RuntimeInv, RuntimeTypeOK, StagesDone
<1> QED
  BY <1>1, <1>2, ResetInv, StepInv, RunStageInv DEF RuntimeNext

THEOREM RuntimeInductive == RuntimeSpec => []RuntimeInv
<1> QED
  BY RuntimeInitInv, RuntimeNextInv, PTL DEF RuntimeSpec

(* Type correctness of the engine and its controller: no mode but those of  *)
(* the enumerations, whatever is called in whatever order.                  *)
THEOREM RuntimeTypeCorrect == RuntimeSpec => []RuntimeTypeOK
<1>1. RuntimeInv => RuntimeTypeOK
  BY DEF RuntimeInv
<1> QED
  BY <1>1, RuntimeInductive, PTL
-----------------------------------------------------------------------------
(* Every change of the controller's state counts one, nothing else counts,  *)
(* a final state is left by a reset only, and only a running controller     *)
(* moves the clock of the mission.                                          *)
THEOREM ControlCounts == RuntimeSpec => ControlTells
<1> DEFINE Tells ==
      \/ ResetRuntime
      \/ /\ controlSequence' = controlSequence + (IF runtime' = runtime THEN 0 ELSE 1)
         /\ runtime \in {"Completed", "Aborted", "Fault"} => runtime' = runtime
         /\ mission'.sequence # mission.sequence => runtime = "Running"
<1>1. ASSUME RuntimeInv, RuntimeNext PROVE Tells
  <2>1. controlSequence \in Int
    BY <1>1 DEF RuntimeInv, RuntimeTypeOK
  <2>2. CASE Start \/ Pause \/ Resume \/ Abort
    BY <2>1, <2>2 DEF Start, Pause, Resume, Abort, Moves
  <2>3. CASE \E draw \in EngineDraws : StepRuntime(draw)
    <3>1. PICK draw \in EngineDraws : StepRuntime(draw)
      BY <2>3
    <3>2. CASE runtime = "Running"
      BY <2>1, <3>1, <3>2 DEF StepRuntime
    <3>3. CASE runtime \in {"Ready", "Paused"}
      BY <2>1, <3>1, <3>3 DEF StepRuntime
    <3> QED
      BY <3>1, <3>2, <3>3 DEF StepRuntime
  <2>4. ASSUME NEW burn \in OrbitStages, NEW outcome \in StageOutcomes, NEW fuel \in BOOLEAN,
               RunStage(burn, outcome, fuel)
        PROVE  Tells
    <3>1. mission'.sequence = mission.sequence
      <4>1. mission \in EngineType
        BY <1>1 DEF RuntimeInv, RuntimeTypeOK
      <4>2. StageEffect(mission, burn, outcome, mission')
        BY <2>4, <4>1, StageTyped DEF RunStage
      <4> QED
        BY <4>2 DEF StageEffect
    <3>2. controlSequence' = controlSequence /\ runtime' = runtime
      BY <2>4 DEF RunStage
    <3> QED
      BY <2>1, <3>1, <3>2
  <2> QED
    BY <1>1, <2>2, <2>3, <2>4 DEF RuntimeNext
<1>2. RuntimeInv /\ [RuntimeNext]_runtimeVars => [Tells]_runtimeVars
  BY <1>1
<1> QED
  BY <1>2, RuntimeInductive, PTL DEF RuntimeSpec, ControlTells

(* A stage of the lunar orbit burns only when the stages it builds on are   *)
(* done and itself is not, however often it is retried, and a stage that    *)
(* burned keeps an event-driven mission in the lunar orbit.                 *)
THEOREM StagesBurnInOrder == RuntimeSpec => StagesInOrder
<1> DEFINE Ordered ==
      \/ ResetRuntime
      \/ /\ \A s \in OrbitStages : burns'[s] # burns[s] =>
                /\ s \notin mission.executed
                /\ \A t \in StageBefore[s] : t \in mission.executed /\ burns[t] > 0
         /\ mission.driven /\ (\E s \in OrbitStages : burns[s] > 0)
                => mission'.phase = "LunarOrbit"
<1>1. ASSUME RuntimeInv, RuntimeInv', RuntimeNext PROVE Ordered
  <2>1. CASE Start \/ Pause \/ Resume \/ Abort
    BY <1>1, <2>1 DEF Start, Pause, Resume, Abort, Moves, RuntimeInv, StagesDone
  <2>2. ASSUME NEW draw \in EngineDraws, StepRuntime(draw) PROVE Ordered
    <3>1. /\ burns' = burns
          /\ mission' = mission \/ (Possible(mission, draw) /\ mission' = EngineAfter(mission, draw))
      BY <2>2 DEF StepRuntime
    <3>2. mission.driven /\ mission.phase = "LunarOrbit" => mission'.phase = "LunarOrbit"
      BY <1>1, <3>1, EngineStepTyped DEF RuntimeInv, RuntimeTypeOK
    <3> QED
      BY <1>1, <3>1, <3>2 DEF RuntimeInv, StagesDone
  <2>3. ASSUME NEW burn \in OrbitStages, NEW outcome \in StageOutcomes, NEW fuel \in BOOLEAN,
               RunStage(burn, outcome, fuel)
        PROVE  Ordered
    <3>1. mission'.phase = mission.phase
      <4>1. mission \in EngineType
        BY <1>1 DEF RuntimeInv, RuntimeTypeOK
      <4>2. StageEffect(mission, burn, outcome, mission')
        BY <2>3, <4>1, StageTyped DEF RunStage
      <4> QED
        BY <4>2 DEF StageEffect
    <3>2. ASSUME NEW s \in OrbitStages, burns'[s] # burns[s]
          PROVE  /\ s \notin mission.executed
                 /\ \A t \in StageBefore[s] : t \in mission.executed /\ burns[t] > 0
      <4>1. s = burn /\ StageBurns(mission, burn)
        BY <1>1, <2>3, <3>2 DEF RunStage, RuntimeInv, RuntimeTypeOK
      <4> QED
        BY <1>1, <4>1 DEF StageBurns, StageAllowed, RuntimeInv, StagesDone
    <3> QED
      BY <1>1, <3>1, <3>2 DEF RuntimeInv, StagesDone
  <2> QED
    BY <1>1, <2>1, <2>2, <2>3 DEF RuntimeNext
<1>2. RuntimeInv /\ RuntimeInv' /\ [RuntimeNext]_runtimeVars => [Ordered]_runtimeVars
  BY <1>1
<1> QED
  BY <1>2, RuntimeInductive, PTL DEF RuntimeSpec, StagesInOrder
-----------------------------------------------------------------------------
(* The uplink *)

\* A step counts one; only one that does not throw shows, and shows what is so.
LEMMA EngineStepShows ==
    ASSUME NEW m \in EngineType, NEW draw \in EngineDraws, Possible(m, draw)
    PROVE  /\ EngineAfter(m, draw).sequence = m.sequence + 1
           /\ draw.throws => EngineAfter(m, draw).phase = m.phase
           /\ ~draw.throws =>
                 /\ EngineAfter(m, draw).report.phase = EngineAfter(m, draw).phase
                 /\ EngineAfter(m, draw).report.sequence = EngineAfter(m, draw).sequence
<1> DEFINE p == Planned(m)
           c == Counted(p)
<1>1. p \in EngineType /\ p.phase = m.phase /\ p.sequence = m.sequence
  BY EngineAssumption DEF Planned, EngineType, Injecting, NotPlanned
<1>2. /\ c.phase = m.phase /\ c.sequence = m.sequence + 1
      /\ DOMAIN c = DOMAIN p /\ DOMAIN p = {"driven", "phase", "elapsed", "sequence", "burn",
                                           "fuel", "firing", "executed", "failed", "report"}
  <2> HIDE DEF p
  <2> DEFINE e == IF Injecting(p) \/ (p.driven /\ ~Propagates(p)) THEN p.elapsed ELSE p.elapsed + 1
             n == p.sequence + 1
  <2>1. c = [p EXCEPT !.sequence = n, !.elapsed = e]
    BY DEF Counted
  <2> HIDE DEF e, c, n
  <2>2. c.phase = m.phase /\ c.sequence = n /\ DOMAIN c = DOMAIN p
    BY <1>1, <2>1 DEF EngineType
  <2> QED
    BY <1>1, <2>2 DEF EngineType, n
<1>3. CASE draw.throws
  BY <1>2, <1>3 DEF EngineAfter
<1>4. CASE ~draw.throws
  <2> HIDE DEF c
  <2> DEFINE burned == IF Injecting(m) /\ Propagates(m)
                       THEN [c EXCEPT !.burn = @ - 1, !.elapsed = @ + 1] ELSE c
             moved == [burned EXCEPT !.fuel = draw.fuel,
                                     !.firing = IF Propagates(m) THEN Fires(m) ELSE @]
             ended == IF PhaseIsOver(m, draw)
                      THEN [moved EXCEPT !.phase = NextPhase[m.phase], !.elapsed = 0,
                                !.burn = IF m.phase = "EarthOrbit" THEN NotPlanned ELSE @]
                      ELSE moved
  <2>1. burned.sequence = c.sequence /\ DOMAIN burned = DOMAIN c
    BY <1>2
  <2> HIDE DEF burned
  <2>2. moved.sequence = c.sequence /\ DOMAIN moved = DOMAIN c
    BY <1>2, <2>1
  <2> HIDE DEF moved
  <2>3. ended.sequence = c.sequence /\ DOMAIN ended = DOMAIN c
    BY <1>2, <2>2
  <2>4. EngineAfter(m, draw) = Refreshed(ended)
    BY <1>4 DEF EngineAfter, EngineStepped, ended, moved, burned, c
  <2> HIDE DEF ended
  <2>5. /\ Refreshed(ended).sequence = ended.sequence /\ Refreshed(ended).phase = ended.phase
        /\ Refreshed(ended).report = [phase |-> ended.phase, sequence |-> ended.sequence]
    BY <1>2, <2>3 DEF Refreshed
  <2> QED
    BY <1>2, <1>4, <2>3, <2>4, <2>5
<1> QED
  BY <1>3, <1>4

Transition == [from : MissionPhases, to : MissionPhases, sequence : Nat]
PhasesSeen(t) == {"EarthOrbit"} \union {t[k].to : k \in DOMAIN t}

\* The transitions lead from the start to the phase the engine is in.
LeadsTo(t, phase) ==
    /\ \A k \in DOMAIN t : t[k].from = IF k = 1 THEN "EarthOrbit" ELSE t[k - 1].to
    /\ phase = IF t = <<>> THEN "EarthOrbit" ELSE t[Len(t)].to

\* The records of this process lie before the metric that is due.
BeforeDue(r) ==
    /\ r.launch <= launch
    /\ r.launch = launch =>
          /\ \/ r.tick < progress.sequence
             \/ r.tick = progress.sequence /\ (uplink.next = 0 \/ r.metric < uplink.next)
          /\ r.phase \in PhasesSeen(transitions)

ArrivedInOrder(r, s) ==
    /\ r.id # s.id
    /\ r.launch = s.launch => \/ r.tick < s.tick
                              \/ r.tick = s.tick /\ r.metric < s.metric

UplinkInv ==
    /\ UplinkTypeOK
    /\ uplink.ticks <= flight.sequence /\ flight.sequence <= MaxTicks
    /\ progress.sequence <= flight.sequence
    /\ LeadsTo(transitions, flight.phase) /\ progress.phase \in PhasesSeen(transitions)
    /\ \A i \in DOMAIN uplink.accepted :
           \E j \in DOMAIN ground : ground[j] = uplink.accepted[i]
    /\ uplink.attempted = Len(uplink.accepted) + uplink.rejected
    /\ \A j \in DOMAIN ground : BeforeDue(ground[j])
    /\ \A i, j \in DOMAIN ground : i < j => ArrivedInOrder(ground[i], ground[j])

LEMMA TransitionsGrow ==
    ASSUME NEW t \in Seq(Transition), NEW from \in MissionPhases, NEW to \in MissionPhases,
           NEW n \in Nat, LeadsTo(t, from)
    PROVE  LET u == Append(t, [from |-> from, to |-> to, sequence |-> n])
           IN  /\ u \in Seq(Transition) /\ LeadsTo(u, to)
               /\ PhasesSeen(t) \subseteq PhasesSeen(u) /\ to \in PhasesSeen(u)
<1> DEFINE step == [from |-> from, to |-> to, sequence |-> n]
           u == Append(t, step)
<1>1. step \in Transition /\ step.from = from /\ step.to = to
  BY DEF Transition
<1> HIDE DEF step
<1>2. /\ u \in Seq(Transition) /\ Len(u) = Len(t) + 1 /\ Len(t) \in Nat
      /\ DOMAIN u = 1 .. Len(t) + 1 /\ DOMAIN t = 1 .. Len(t)
      /\ \A k \in 1 .. Len(t) : u[k] = t[k]
      /\ u[Len(t) + 1] = step /\ u # <<>> /\ (t = <<>> <=> Len(t) = 0)
  BY <1>1
<1> HIDE DEF u
<1>3. LeadsTo(u, to)
  <2>1. ASSUME NEW k \in DOMAIN u
        PROVE  u[k].from = IF k = 1 THEN "EarthOrbit" ELSE u[k - 1].to
    <3>1. CASE k \in 1 .. Len(t)
      <4>1. k # 1 => k - 1 \in 1 .. Len(t)
        BY <1>2, <3>1
      <4> QED
        BY <1>2, <3>1, <4>1 DEF LeadsTo
    <3>2. CASE k = Len(t) + 1
      <4>1. k - 1 = Len(t) /\ (k # 1 => Len(t) \in 1 .. Len(t)) /\ (k = 1 <=> t = <<>>)
        BY <1>2, <3>2
      <4> QED
        BY <1>1, <1>2, <3>2, <4>1 DEF LeadsTo
    <3> QED
      BY <1>2, <2>1, <3>1, <3>2
  <2> QED
    BY <1>1, <1>2, <2>1 DEF LeadsTo
<1>4. PhasesSeen(t) \subseteq PhasesSeen(u)
  <2>1. \A k \in DOMAIN t : k \in DOMAIN u /\ u[k].to = t[k].to
    BY <1>2
  <2> QED
    BY <2>1 DEF PhasesSeen
<1>5. to \in PhasesSeen(u)
  <2>1. Len(t) + 1 \in DOMAIN u /\ u[Len(t) + 1].to = to
    BY <1>1, <1>2
  <2> QED
    BY <2>1 DEF PhasesSeen
<1> QED
  BY <1>2, <1>3, <1>4, <1>5 DEF u, step
Progress ==
    [phase : MissionPhases, previous : MissionPhases, changed : BOOLEAN,
     count : Nat, sequence : Nat, complete : BOOLEAN]
UplinkState ==
    [next : 0 .. PostedMetrics, id : Nat, ticks : 0 .. MaxTicks, attempted : Nat,
     accepted : Seq(RecordType), rejected : Nat]

LEMMA ShowsTyped ==
    ASSUME NEW m \in EngineType, NEW previous \in MissionPhases, NEW changed \in BOOLEAN,
           NEW count \in Nat
    PROVE  /\ Shows(m, previous, changed, count) \in Progress
           /\ Shows(m, previous, changed, count).phase = m.report.phase
           /\ Shows(m, previous, changed, count).sequence = m.report.sequence
<1>1. (m.phase = "Complete") \in BOOLEAN
  OBVIOUS
<1>2. m.report.phase \in MissionPhases /\ m.report.sequence \in Nat
  BY DEF EngineType
<1> QED
  BY <1>1, <1>2 DEF Shows, Progress

\* A process that starts knows nothing and shows the start.
LEMMA FreshUplink ==
    /\ NewEngine(TRUE) \in EngineType /\ NewEngine(TRUE).phase = "EarthOrbit"
    /\ NewEngine(TRUE).sequence = 0
    /\ LET shows == Shows(NewEngine(TRUE), "EarthOrbit", FALSE, 0)
       IN  shows \in Progress /\ shows.phase = "EarthOrbit" /\ shows.sequence = 0
    /\ NewUplink \in UplinkState /\ NewUplink.next = 0 /\ NewUplink.ticks = 0
    /\ NewUplink.attempted = 0 /\ NewUplink.accepted = <<>> /\ NewUplink.rejected = 0
    /\ LeadsTo(<<>>, "EarthOrbit") /\ "EarthOrbit" \in PhasesSeen(<<>>)
<1>1. /\ NewEngine(TRUE) \in EngineType /\ NewEngine(TRUE).phase = "EarthOrbit"
      /\ NewEngine(TRUE).sequence = 0
      /\ NewEngine(TRUE).report.phase = "EarthOrbit" /\ NewEngine(TRUE).report.sequence = 0
  BY FreshEngine DEF NewEngine
<1>2. LET shows == Shows(NewEngine(TRUE), "EarthOrbit", FALSE, 0)
      IN  shows \in Progress /\ shows.phase = "EarthOrbit" /\ shows.sequence = 0
  <2>1. "EarthOrbit" \in MissionPhases /\ FALSE \in BOOLEAN /\ 0 \in Nat
    BY DEF MissionPhases
  <2> QED
    BY <1>1, <2>1, ShowsTyped
<1>3. NewUplink \in UplinkState
  <2>1. <<>> \in Seq(RecordType) /\ 0 \in 0 .. PostedMetrics /\ 0 \in 0 .. MaxTicks
    BY UplinkAssumption
  <2> QED
    BY <2>1 DEF NewUplink, UplinkState
<1>4. /\ NewUplink.next = 0 /\ NewUplink.ticks = 0
      /\ NewUplink.attempted = 0 /\ NewUplink.accepted = <<>> /\ NewUplink.rejected = 0
  BY DEF NewUplink
<1>5. LeadsTo(<<>>, "EarthOrbit") /\ "EarthOrbit" \in PhasesSeen(<<>>)
  BY DEF LeadsTo, PhasesSeen
<1> QED
  BY <1>1, <1>2, <1>3, <1>4, <1>5

LEMMA UplinkFresh == UplinkInit => UplinkInv
<1> SUFFICES ASSUME UplinkInit PROVE UplinkInv
  OBVIOUS
<1>1. /\ flight \in EngineType /\ flight.phase = "EarthOrbit" /\ flight.sequence = 0
      /\ progress \in Progress /\ progress.phase = "EarthOrbit" /\ progress.sequence = 0
      /\ uplink \in UplinkState /\ uplink.ticks = 0
      /\ uplink.attempted = 0 /\ uplink.accepted = <<>> /\ uplink.rejected = 0
  BY FreshUplink DEF UplinkInit
<1>2. /\ LeadsTo(transitions, flight.phase) /\ progress.phase \in PhasesSeen(transitions)
      /\ transitions = <<>> /\ ground = <<>> /\ launch = 1
  BY <1>1, FreshUplink DEF UplinkInit
<1>3. UplinkTypeOK
  <2>1. <<>> \in Seq(Transition) /\ <<>> \in Seq(RecordType) /\ 1 \in 1 .. MaxLaunches
    BY UplinkAssumption
  <2> QED
    BY <1>1, <1>2, <2>1 DEF UplinkTypeOK, Progress, UplinkState, Transition
<1>4. MaxTicks \in Nat /\ Len(<<>>) = 0
  BY UplinkAssumption
<1>5. DOMAIN ground = {} /\ DOMAIN uplink.accepted = {}
  BY <1>1, <1>2
<1> QED
  BY <1>1, <1>2, <1>3, <1>4, <1>5 DEF UplinkInv

LEMMA TickKeeps ==
    ASSUME UplinkInv, NEW draw \in EngineDraws, Tick(draw)
    PROVE  UplinkInv'
<1>1. /\ uplink.next = 0 /\ flight.sequence < MaxTicks /\ Possible(flight, draw)
      /\ flight' = EngineAfter(flight, draw) /\ ground' = ground /\ launch' = launch
  BY DEF Tick, ControllerStep
<1>2. /\ flight \in EngineType /\ transitions \in Seq(Transition)
      /\ progress \in Progress /\ uplink \in UplinkState /\ MaxTicks \in Nat
      /\ flight.phase \in MissionPhases /\ flight.sequence \in Nat
      /\ progress.sequence \in Nat
  BY UplinkAssumption DEF UplinkInv, UplinkTypeOK, Transition, Progress, UplinkState, EngineType
<1>3. /\ flight' \in EngineType /\ flight'.sequence = flight.sequence + 1
      /\ draw.throws => flight'.phase = flight.phase
      /\ ~draw.throws => /\ flight'.report.phase = flight'.phase
                         /\ flight'.report.sequence = flight'.sequence
  BY <1>1, <1>2, EngineStepTyped, EngineStepShows
<1>4. flight'.phase \in MissionPhases /\ flight'.sequence \in Nat
  BY <1>3 DEF EngineType
<1>5. \A j \in DOMAIN ground : BeforeDue(ground[j]) /\ ground[j].tick \in Nat
  <2>1. \A j \in DOMAIN ground : ground[j] \in RecordType
    BY DEF UplinkInv, UplinkTypeOK
  <2>2. \A r \in RecordType : r.tick \in Nat
    BY DEF RecordType
  <2> QED
    BY <2>1, <2>2 DEF UplinkInv
<1>6. CASE draw.throws
  <2>1. transitions' = transitions /\ progress' = progress /\ uplink' = uplink
    BY <1>6 DEF Tick, ControllerStep
  <2>2. UplinkTypeOK'
    BY <1>1, <1>3, <2>1 DEF UplinkInv, UplinkTypeOK
  <2>3. /\ uplink'.ticks <= flight'.sequence /\ flight'.sequence <= MaxTicks
        /\ progress'.sequence <= flight'.sequence
    <3>1. uplink.ticks \in Nat
      BY <1>2 DEF UplinkState
    <3> QED
      BY <1>1, <1>2, <1>3, <2>1, <3>1 DEF UplinkInv
  <2>4. \A j \in DOMAIN ground' : BeforeDue(ground[j])'
    BY <1>1, <1>5, <2>1 DEF BeforeDue
  <2> QED
    BY <1>1, <1>3, <1>6, <2>1, <2>2, <2>3, <2>4 DEF UplinkInv
<1>7. CASE ~draw.throws
  <2> DEFINE changed == flight'.phase # flight.phase
  <2>1. /\ transitions' = (IF changed
                           THEN Append(transitions,
                                       [from |-> flight.phase, to |-> flight'.phase,
                                        sequence |-> flight'.sequence])
                           ELSE transitions)
        /\ progress' = Shows(flight', flight.phase, changed, Len(transitions'))
        /\ uplink' = [uplink EXCEPT !.next = 1, !.ticks = @ + 1]
    BY <1>7, Zenon DEF Tick, ControllerStep
  <2>2. /\ transitions' \in Seq(Transition) /\ LeadsTo(transitions', flight'.phase)
        /\ PhasesSeen(transitions) \subseteq PhasesSeen(transitions')
        /\ flight'.phase \in PhasesSeen(transitions')
    <3>1. LeadsTo(transitions, flight.phase)
      BY DEF UplinkInv
    <3>2. CASE changed
      BY <1>2, <1>4, <2>1, <3>1, <3>2, TransitionsGrow
    <3>3. CASE ~changed
      <4>1. flight.phase \in PhasesSeen(transitions)
        <5>1. transitions # <<>> => Len(transitions) \in DOMAIN transitions
          BY <1>2
        <5> QED
          BY <3>1, <5>1 DEF LeadsTo, PhasesSeen
      <4> QED
        BY <1>2, <2>1, <3>1, <3>3, <4>1
    <3> QED
      BY <3>2, <3>3
  <2>3. /\ progress' \in Progress /\ progress'.phase = flight'.phase
        /\ progress'.sequence = flight.sequence + 1
    <3>1. changed \in BOOLEAN /\ Len(transitions') \in Nat
      BY <2>2
    <3> QED
      BY <1>2, <1>3, <1>7, <2>1, <3>1, ShowsTyped
  <2>4. /\ uplink' \in UplinkState /\ uplink'.ticks = uplink.ticks + 1
        /\ uplink'.next = 1 /\ uplink'.accepted = uplink.accepted
        /\ uplink'.attempted = uplink.attempted /\ uplink'.rejected = uplink.rejected
        /\ uplink.ticks \in Nat
    <3>1. uplink.ticks \in Nat /\ uplink.ticks <= flight.sequence
      BY <1>2 DEF UplinkState, UplinkInv
    <3>2. uplink.ticks + 1 \in 0 .. MaxTicks /\ 1 \in 0 .. PostedMetrics
      BY <1>1, <1>2, <3>1, UplinkAssumption
    <3> DEFINE n == uplink.ticks + 1
    <3>3. uplink' = [uplink EXCEPT !.next = 1, !.ticks = n]
      BY <2>1
    <3> HIDE DEF n
    <3>4. n \in 0 .. MaxTicks /\ n = uplink.ticks + 1
      BY <3>2 DEF n
    <3> QED
      BY <1>2, <3>1, <3>2, <3>3, <3>4 DEF UplinkState
  <2>5. UplinkTypeOK'
    BY <1>1, <1>3, <2>2, <2>3, <2>4
    DEF UplinkInv, UplinkTypeOK, Transition, Progress, UplinkState
  <2>6. /\ uplink'.ticks <= flight'.sequence /\ flight'.sequence <= MaxTicks
        /\ progress'.sequence <= flight'.sequence
    BY <1>1, <1>2, <1>3, <2>3, <2>4 DEF UplinkInv
  <2>7. \A j \in DOMAIN ground' : BeforeDue(ground[j])'
    <3> SUFFICES ASSUME NEW j \in DOMAIN ground PROVE BeforeDue(ground[j])'
      BY <1>1
    <3>1. BeforeDue(ground[j]) /\ ground[j].tick \in Nat
      BY <1>5
    <3>2. ground[j].launch = launch => ground[j].tick <= progress.sequence
      BY <1>2, <3>1 DEF BeforeDue
    <3>3. ground[j].launch = launch => ground[j].tick < progress'.sequence
      BY <1>2, <2>3, <3>1, <3>2 DEF UplinkInv
    <3> QED
      BY <1>1, <2>2, <3>1, <3>3 DEF BeforeDue
  <2> QED
    BY <1>1, <2>2, <2>3, <2>4, <2>5, <2>6, <2>7 DEF UplinkInv
<1> QED
  BY <1>6, <1>7

\* A record more, at the end.
LEMMA RecordAppended ==
    ASSUME NEW s \in Seq(RecordType), NEW r \in RecordType
    PROVE  /\ Append(s, r) \in Seq(RecordType) /\ Len(Append(s, r)) = Len(s) + 1
           /\ DOMAIN s = 1 .. Len(s) /\ DOMAIN Append(s, r) = 1 .. Len(s) + 1
           /\ \A j \in DOMAIN s : Append(s, r)[j] = s[j]
           /\ Append(s, r)[Len(s) + 1] = r
           /\ \A j \in DOMAIN Append(s, r) : j \in DOMAIN s \/ j = Len(s) + 1
           /\ Len(s) + 1 \in DOMAIN Append(s, r) /\ Len(s) \in Nat
OBVIOUS

LEMMA PostKeeps ==
    ASSUME UplinkInv, NEW outcome \in PostOutcomes, Post(outcome)
    PROVE  UplinkInv'
<1> DEFINE stored == outcome \in {"accepted", "answer lost"}
           done == outcome = "accepted"
           next == IF done /\ uplink.next < PostedMetrics THEN uplink.next + 1 ELSE 0
           accepted == IF done THEN Append(uplink.accepted, DueRecord) ELSE uplink.accepted
           rejected == IF done THEN uplink.rejected ELSE uplink.rejected + 1
           id == uplink.id + 1
           attempted == uplink.attempted + 1
<1>1. /\ uplink.next > 0 /\ PostPossible(outcome)
      /\ flight' = flight /\ transitions' = transitions /\ progress' = progress
      /\ launch' = launch
      /\ ground' = (IF stored THEN Append(ground, DueRecord) ELSE ground)
      /\ uplink' = [uplink EXCEPT !.id = id, !.attempted = attempted, !.accepted = accepted,
                                  !.rejected = rejected, !.next = next]
  BY DEF Post, Succeeds
<1>2. /\ uplink.id \in Nat /\ uplink.attempted \in Nat /\ uplink.accepted \in Seq(RecordType)
      /\ uplink.rejected \in Nat /\ uplink.next \in 0 .. PostedMetrics
      /\ uplink \in UplinkState /\ ground \in Seq(RecordType)
      /\ progress.sequence \in Nat /\ progress.phase \in MissionPhases
      /\ launch \in 1 .. MaxLaunches /\ launch \in Nat
  BY UplinkAssumption DEF UplinkInv, UplinkTypeOK, UplinkState
<1>3. /\ DueRecord \in RecordType /\ DueRecord.id = uplink.id + 1
      /\ DueRecord.tick = progress.sequence /\ DueRecord.metric = uplink.next
      /\ DueRecord.phase = progress.phase /\ DueRecord.launch = launch
  <2>1. uplink.next \in 1 .. PostedMetrics /\ uplink.id + 1 \in Nat
    <3>1. uplink.next > 0
      BY DEF Post
    <3> QED
      BY <1>2, <3>1, UplinkAssumption
  <2> QED
    BY <1>2, <2>1 DEF DueRecord, RecordType
<1>4. stored => \A j \in DOMAIN ground : ground[j].id # DueRecord.id
  BY <1>1, <1>3 DEF PostPossible, Stored
<1>5. next \in 0 .. PostedMetrics /\ (next = 0 \/ next = uplink.next + 1)
  BY <1>2, UplinkAssumption
<1> HIDE DEF next
<1>6. accepted \in Seq(RecordType) /\ rejected \in Nat /\ id \in Nat /\ attempted \in Nat
  BY <1>2, <1>3
<1>7. attempted = Len(accepted) + rejected
  <2>1. /\ uplink.attempted = Len(uplink.accepted) + uplink.rejected /\ Len(uplink.accepted) \in Nat
        /\ attempted = uplink.attempted + 1
    BY <1>2 DEF UplinkInv
  <2>2. \/ Len(accepted) = Len(uplink.accepted) + 1 /\ rejected = uplink.rejected
        \/ Len(accepted) = Len(uplink.accepted) /\ rejected = uplink.rejected + 1
    BY <1>2, <1>3, RecordAppended
  <2>3. uplink.rejected \in Nat
    BY <1>2
  <2> DEFINE n == Len(uplink.accepted)
             n2 == Len(accepted)
  <2>4. uplink.attempted = n + uplink.rejected /\ n \in Nat
    BY <2>1
  <2>5. \/ n2 = n + 1 /\ rejected = uplink.rejected
        \/ n2 = n /\ rejected = uplink.rejected + 1
    BY <2>2
  <2>6. attempted = uplink.attempted + 1
    BY <2>1
  <2> HIDE DEF accepted, rejected, attempted, n, n2
  <2>7. attempted = n2 + rejected
    BY <2>3, <2>4, <2>5, <2>6
  <2> QED
    BY <2>7 DEF n2
<1>8. /\ ground' \in Seq(RecordType)
      /\ DOMAIN ground \subseteq DOMAIN ground' /\ \A j \in DOMAIN ground : ground'[j] = ground[j]
      /\ \A j \in DOMAIN ground' :
            (j \in DOMAIN ground \/ (stored /\ j = Len(ground) + 1 /\ ground'[j] = DueRecord))
      /\ stored => Len(ground) + 1 \in DOMAIN ground' /\ ground'[Len(ground) + 1] = DueRecord
      /\ DOMAIN ground = 1 .. Len(ground) /\ Len(ground) \in Nat
  <2>1. CASE stored
    <3>1. ground' = Append(ground, DueRecord)
      BY <1>1, <2>1
    <3> HIDE DEF stored
    <3>2. \A j \in DOMAIN ground : j \in DOMAIN ground'
      BY <1>2, <1>3, <3>1, RecordAppended
    <3> QED
      BY <1>2, <1>3, <2>1, <3>1, <3>2, RecordAppended
  <2>2. CASE ~stored
    <3>1. ground' = ground
      BY <1>1, <2>2
    <3> HIDE DEF stored
    <3> QED
      BY <1>2, <1>3, <2>2, <3>1, RecordAppended
  <2> QED
    BY <2>1, <2>2
<1>9. \A i \in DOMAIN accepted :
          ((i \in DOMAIN uplink.accepted /\ accepted[i] = uplink.accepted[i])
           \/ (stored /\ accepted[i] = DueRecord))
  <2>1. CASE done
    <3>1. stored /\ accepted = Append(uplink.accepted, DueRecord)
      BY <2>1
    <3> HIDE DEF stored, accepted
    <3> QED
      BY <1>2, <1>3, <3>1, RecordAppended
  <2>2. CASE ~done
    BY <2>2
  <2> QED
    BY <2>1, <2>2
<1>10. /\ uplink' \in UplinkState /\ uplink'.accepted = accepted /\ uplink'.next = next
       /\ uplink'.attempted = attempted /\ uplink'.rejected = rejected
       /\ uplink'.ticks = uplink.ticks
  <2> HIDE DEF accepted, rejected, id, attempted
  <2> QED
    BY <1>1, <1>2, <1>5, <1>6 DEF UplinkState
<1> HIDE DEF accepted, rejected, id, attempted, stored, done
<1>11. UplinkTypeOK'
  BY <1>1, <1>8, <1>10 DEF UplinkInv, UplinkTypeOK, UplinkState
<1>12. \A i \in DOMAIN uplink'.accepted :
          \E j \in DOMAIN ground' : ground'[j] = uplink'.accepted[i]
  <2> SUFFICES ASSUME NEW i \in DOMAIN accepted
               PROVE  \E j \in DOMAIN ground' : ground'[j] = accepted[i]
    BY <1>10
  <2>1. CASE i \in DOMAIN uplink.accepted /\ accepted[i] = uplink.accepted[i]
    <3>1. PICK j \in DOMAIN ground : ground[j] = uplink.accepted[i]
      BY <2>1 DEF UplinkInv
    <3> QED
      BY <1>8, <2>1, <3>1
  <2>2. CASE stored /\ accepted[i] = DueRecord
    BY <1>8, <2>2
  <2> QED
    BY <1>9, <2>1, <2>2
<1>13. \A j \in DOMAIN ground' : BeforeDue(ground[j])'
  <2> SUFFICES ASSUME NEW j \in DOMAIN ground' PROVE BeforeDue(ground[j])'
    OBVIOUS
  <2>1. CASE j \in DOMAIN ground
    <3>1. BeforeDue(ground[j]) /\ ground'[j] = ground[j] /\ ground[j].metric \in Nat
      <4>1. ground[j] \in RecordType
        BY <1>2, <2>1
      <4>2. ground[j].metric \in Nat
        BY <4>1, UplinkAssumption DEF RecordType
      <4> QED
        BY <1>8, <2>1, <4>2 DEF UplinkInv
    <3>2. /\ ground[j].launch <= launch
          /\ ground[j].launch = launch =>
               /\ \/ ground[j].tick < progress.sequence
                  \/ ground[j].tick = progress.sequence
                     /\ (uplink.next = 0 \/ ground[j].metric < uplink.next)
               /\ ground[j].phase \in PhasesSeen(transitions)
      BY <3>1 DEF BeforeDue
    <3>3. uplink.next # 0 /\ (ground[j].metric < uplink.next =>
                                next = 0 \/ ground[j].metric < next)
      BY <1>1, <1>2, <1>5, <3>1
    <3> QED
      BY <1>1, <1>10, <3>1, <3>2, <3>3 DEF BeforeDue
  <2>2. CASE ground'[j] = DueRecord
    <3>1. launch <= launch /\ (next = 0 \/ uplink.next < next)
      BY <1>2, <1>5
    <3>2. progress.phase \in PhasesSeen(transitions)
      BY DEF UplinkInv
    <3> QED
      BY <1>1, <1>3, <1>10, <2>2, <3>1, <3>2 DEF BeforeDue
  <2> QED
    BY <1>8, <2>1, <2>2
<1>14. \A i, j \in DOMAIN ground' : i < j => ArrivedInOrder(ground'[i], ground'[j])
  <2> SUFFICES ASSUME NEW i \in DOMAIN ground', NEW j \in DOMAIN ground', i < j
               PROVE  ArrivedInOrder(ground'[i], ground'[j])
    OBVIOUS
  <2>1. i \in DOMAIN ground /\ ground'[i] = ground[i]
    BY <1>8
  <2>2. CASE j \in DOMAIN ground
    BY <1>8, <2>1, <2>2 DEF UplinkInv
  <2>3. CASE stored /\ ground'[j] = DueRecord
    <3>1. BeforeDue(ground[i]) /\ ground[i].id # DueRecord.id
      BY <1>4, <2>1, <2>3 DEF UplinkInv
    <3>2. uplink.next # 0
      BY <1>1
    <3> QED
      BY <1>3, <2>1, <2>3, <3>1, <3>2 DEF BeforeDue, ArrivedInOrder
  <2> QED
    BY <1>8, <2>2, <2>3
<1> QED
  BY <1>1, <1>7, <1>10, <1>11, <1>12, <1>13, <1>14 DEF UplinkInv

LEMMA RelaunchKeeps == ASSUME UplinkInv, Relaunch PROVE UplinkInv'
<1>1. /\ flight' \in EngineType /\ flight'.phase = "EarthOrbit" /\ flight'.sequence = 0
      /\ progress' \in Progress /\ progress'.phase = "EarthOrbit" /\ progress'.sequence = 0
      /\ uplink' \in UplinkState /\ uplink'.ticks = 0
      /\ uplink'.attempted = 0 /\ uplink'.accepted = <<>> /\ uplink'.rejected = 0
      /\ transitions' = <<>>
  BY FreshUplink DEF Relaunch, FreshProcess
<1>2. /\ LeadsTo(transitions', flight'.phase) /\ progress'.phase \in PhasesSeen(transitions')
      /\ ground' = ground
  BY <1>1, FreshUplink DEF Relaunch
<1>3. launch \in Nat /\ launch' = launch + 1 /\ launch' \in 1 .. MaxLaunches
  BY UplinkAssumption DEF Relaunch, UplinkInv, UplinkTypeOK
<1>4. UplinkTypeOK'
  <2>1. <<>> \in Seq(Transition)
    OBVIOUS
  <2> QED
    BY <1>1, <1>2, <1>3, <2>1 DEF UplinkInv, UplinkTypeOK, Progress, UplinkState, Transition
<1>5. MaxTicks \in Nat /\ Len(<<>>) = 0 /\ DOMAIN uplink'.accepted = {}
  BY <1>1, UplinkAssumption
<1>6. \A j \in DOMAIN ground' : BeforeDue(ground[j])'
  <2> SUFFICES ASSUME NEW j \in DOMAIN ground PROVE BeforeDue(ground[j])'
    BY <1>2
  <2>1. ground[j].launch <= launch /\ ground[j].launch \in Nat
    <3>1. ground[j] \in RecordType
      BY DEF UplinkInv, UplinkTypeOK
    <3>2. BeforeDue(ground[j])
      BY DEF UplinkInv
    <3> QED
      BY <3>1, <3>2 DEF BeforeDue, RecordType
  <2>2. ground[j].launch <= launch' /\ ground[j].launch # launch'
    BY <1>3, <2>1
  <2> QED
    BY <1>2, <2>2 DEF BeforeDue
<1> QED
  BY <1>1, <1>2, <1>4, <1>5, <1>6 DEF UplinkInv

LEMMA UplinkInvariant == UplinkSpec => []UplinkInv
<1>1. UplinkInv /\ [UplinkNext]_uplinkVars => UplinkInv'
  <2>1. UplinkInv /\ UNCHANGED uplinkVars => UplinkInv'
    BY DEF UplinkInv, UplinkTypeOK, uplinkVars, BeforeDue
  <2> QED
    BY <2>1, TickKeeps, PostKeeps, RelaunchKeeps DEF UplinkNext
<1> QED
  BY UplinkFresh, <1>1, PTL DEF UplinkSpec

\* Controller, uplink and ground keep their types.
THEOREM UplinkTyped == UplinkSpec => []UplinkTypeOK
<1>1. UplinkInv => UplinkTypeOK
  BY DEF UplinkInv
<1> QED
  BY UplinkInvariant, <1>1, PTL

\* However often the connection fails and the process starts anew, the uplink
\* counts what the ground has, and the ground has it in the order it was posted.
THEOREM UplinkCountsWhatIsStored == UplinkSpec => []UplinkTells
<1>1. ASSUME UplinkInv PROVE UplinkTells
  <2>1. \A i, j \in DOMAIN ground : i < j =>
           /\ ground[i].id # ground[j].id
           /\ ground[i].launch = ground[j].launch =>
                 \/ ground[i].tick < ground[j].tick
                 \/ ground[i].tick = ground[j].tick /\ ground[i].metric < ground[j].metric
    BY <1>1 DEF UplinkInv, ArrivedInOrder
  <2>2. \A j \in DOMAIN ground : ground[j].launch = launch =>
           ground[j].phase \in {"EarthOrbit"} \union {transitions[k].to : k \in DOMAIN transitions}
    BY <1>1 DEF UplinkInv, BeforeDue, PhasesSeen
  <2> QED
    BY <1>1, <2>1, <2>2 DEF UplinkInv, UplinkTells, LeadsTo
<1> QED
  BY UplinkInvariant, <1>1, PTL
-----------------------------------------------------------------------------
(* The timeline of the early campaigns *)

BeforeDeployment == {"Launch", "EarthOrbit", "TransLunarInjection", "LunarCruise", "LunarOrbit",
                     "Descent", "Landing"}

LEMMA TimelinePhasesAre ==
    /\ {Timeline[i] : i \in 1 .. 7} = BeforeDeployment
    /\ TimelinePhases = BeforeDeployment \union
          {"RoverDeployment", "SurfaceOperations", "Complete", "Fault"}
<1>1. DOMAIN Timeline = 1 .. 10
  BY DEF Timeline
<1>2. /\ Timeline[1] = "Launch" /\ Timeline[2] = "EarthOrbit"
      /\ Timeline[3] = "TransLunarInjection" /\ Timeline[4] = "LunarCruise"
      /\ Timeline[5] = "LunarOrbit" /\ Timeline[6] = "Descent" /\ Timeline[7] = "Landing"
      /\ Timeline[8] = "RoverDeployment" /\ Timeline[9] = "SurfaceOperations"
      /\ Timeline[10] = "Complete"
  BY DEF Timeline
<1> HIDE DEF Timeline
<1>3. \A i \in 1 .. 7 : i \in {1, 2, 3, 4, 5, 6, 7}
  OBVIOUS
<1>4. \A i \in 1 .. 10 : i \in {1, 2, 3, 4, 5, 6, 7, 8, 9, 10}
  OBVIOUS
<1>5. {Timeline[i] : i \in 1 .. 7} = BeforeDeployment
  BY <1>2, <1>3 DEF BeforeDeployment
<1>6. {Timeline[i] : i \in 1 .. 10} =
        BeforeDeployment \union {"RoverDeployment", "SurfaceOperations", "Complete"}
  BY <1>2, <1>4 DEF BeforeDeployment
<1> QED
  BY <1>1, <1>5, <1>6 DEF TimelinePhases

\* The phase that follows; only the landing leads to the deployment.
LEMMA FollowingIs ==
    /\ \A phase \in BeforeDeployment \ {"Landing"} :
          Following(phase) \in BeforeDeployment
    /\ Following("Landing") = "RoverDeployment"
    /\ Following("RoverDeployment") = "SurfaceOperations"
    /\ Following("SurfaceOperations") = "Complete"
<1>1. DOMAIN Timeline = 1 .. 10
  BY DEF Timeline
<1>2. /\ Timeline[1] = "Launch" /\ Timeline[2] = "EarthOrbit"
      /\ Timeline[3] = "TransLunarInjection" /\ Timeline[4] = "LunarCruise"
      /\ Timeline[5] = "LunarOrbit" /\ Timeline[6] = "Descent" /\ Timeline[7] = "Landing"
      /\ Timeline[8] = "RoverDeployment" /\ Timeline[9] = "SurfaceOperations"
      /\ Timeline[10] = "Complete"
  BY DEF Timeline
<1>3. \A i \in 1 .. 10 : i \in {1, 2, 3, 4, 5, 6, 7, 8, 9, 10}
  OBVIOUS
<1> DEFINE at(phase) == CHOOSE i \in DOMAIN Timeline : Timeline[i] = phase
<1> HIDE DEF Timeline
<1>4. \A n \in 1 .. 10 : at(Timeline[n]) \in 1 .. 10 /\ Timeline[at(Timeline[n])] = Timeline[n]
  BY <1>1
<1>5. \A m, n \in 1 .. 10 : Timeline[m] = Timeline[n] => m = n
  BY <1>2, <1>3
<1>6. \A n \in 1 .. 10 : at(Timeline[n]) = n
  BY <1>4, <1>5
<1>7. \A n \in 1 .. 9 : Following(Timeline[n]) = Timeline[n + 1]
  <2>1. \A n \in 1 .. 9 : Following(Timeline[n]) = Timeline[1 + at(Timeline[n])]
    BY Zenon DEF Following
  <2> HIDE DEF at
  <2>2. \A n \in 1 .. 9 : n \in 1 .. 10 /\ 1 + n = n + 1
    OBVIOUS
  <2> QED
    BY <1>6, <2>1, <2>2
<1>8. /\ Following("Launch") = "EarthOrbit" /\ Following("EarthOrbit") = "TransLunarInjection"
      /\ Following("TransLunarInjection") = "LunarCruise"
      /\ Following("LunarCruise") = "LunarOrbit" /\ Following("LunarOrbit") = "Descent"
      /\ Following("Descent") = "Landing" /\ Following("Landing") = "RoverDeployment"
      /\ Following("RoverDeployment") = "SurfaceOperations"
      /\ Following("SurfaceOperations") = "Complete"
  <2>1. /\ 1 \in 1 .. 9 /\ 2 \in 1 .. 9 /\ 3 \in 1 .. 9 /\ 4 \in 1 .. 9 /\ 5 \in 1 .. 9
        /\ 6 \in 1 .. 9 /\ 7 \in 1 .. 9 /\ 8 \in 1 .. 9 /\ 9 \in 1 .. 9
        /\ 1 + 1 = 2 /\ 2 + 1 = 3 /\ 3 + 1 = 4 /\ 4 + 1 = 5 /\ 5 + 1 = 6 /\ 6 + 1 = 7
        /\ 7 + 1 = 8 /\ 8 + 1 = 9 /\ 9 + 1 = 10
    OBVIOUS
  <2> QED
    BY <1>2, <1>7, <2>1
<1> QED
  BY <1>8 DEF BeforeDeployment

\* How far the rover is in each phase: stowed before its deployment, in the
\* middle of it, up when the mission is on the surface.
RoverDown == rover.deployed /\ rover.mastReady
TimelineInv ==
    /\ TimelineTypeOK
    /\ stage \in BeforeDeployment => rover = StowedRover
    /\ stage = "RoverDeployment" =>
          /\ landed
          /\ \/ rover = StowedRover
             \/ rover.mode = "Deployment" /\ rover.deployed /\ rover.healthy /\ rover.charge = "full"
             \/ rover.mode = "SurfaceReady" /\ RoverDown
    /\ stage = "SurfaceOperations" =>
          /\ landed /\ RoverDown
          /\ rover.mode \in {"SurfaceReady", "Driving", "MissionComplete"}
    /\ stage = "Complete" => landed /\ rover.mode = "MissionComplete"
    /\ rover.place <= MaxSurfaceSteps

LEMMA StowedIs ==
    /\ StowedRover \in RoverType /\ StowedRover.mode = "Stowed" /\ StowedRover.place = 0
    /\ StowedRover.healthy /\ StowedRover.charge = "full"
BY DEF StowedRover, RoverType, RoverModes, Charges

LEMMA TimelineFresh == TimelineInit => TimelineInv
<1> SUFFICES ASSUME TimelineInit PROVE TimelineInv
  OBVIOUS
<1>1. stage \in BeforeDeployment /\ stage \notin {"RoverDeployment", "SurfaceOperations", "Complete"}
  BY DEF TimelineInit, BeforeDeployment
<1>2. rover = StowedRover /\ rover \in RoverType /\ rover.place <= MaxSurfaceSteps
  BY StowedIs, TimelineAssumption DEF TimelineInit
<1>3. TimelineTypeOK
  BY <1>1, <1>2, TimelinePhasesAre DEF TimelineInit, TimelineTypeOK
<1> QED
  BY <1>1, <1>2, <1>3 DEF TimelineInv

LEMMA FlightStepKeeps == ASSUME TimelineInv, FlightStep PROVE TimelineInv'
<1> DEFINE now == elapsed + stepLength
<1>1. /\ stage \in BeforeDeployment /\ rover = StowedRover /\ rover' = rover
      /\ landed' = (landed \/ (stage = "Landing" /\ 1000 * now >= 999 * duration))
      /\ stage' = (IF Ends(stage, now, rover) THEN Following(stage) ELSE stage)
      /\ elapsed' = (IF Ends(stage, now, rover) THEN 0 ELSE now)
      /\ stepLength' = stepLength /\ duration' = duration
  BY TimelinePhasesAre, Zenon DEF FlightStep, TimelineInv, Enter
<1>2. stage \notin {"RoverDeployment", "SurfaceOperations", "Complete", "Fault"}
  BY <1>1 DEF BeforeDeployment
<1>3. now \in Nat /\ duration \in Nat /\ stepLength \in StepLengths /\ duration \in Durations
      /\ landed \in BOOLEAN
  BY TimelineAssumption DEF TimelineInv, TimelineTypeOK
<1>4. landed' \in BOOLEAN /\ elapsed' \in Nat
  <2>1. (landed \/ (stage = "Landing" /\ 1000 * now >= 999 * duration)) \in BOOLEAN
    OBVIOUS
  <2> QED
    BY <1>1, <1>3, <2>1
<1>5. Ends(stage, now, rover) <=> now >= duration
  BY <1>2 DEF Ends
<1>6. \/ stage' \in BeforeDeployment
      \/ stage' = "RoverDeployment" /\ landed'
  <2>1. CASE now >= duration /\ stage = "Landing"
    <3>1. 1000 * now >= 999 * duration
      BY <1>3, <2>1
    <3> QED
      BY <1>1, <1>5, <2>1, <3>1, FollowingIs
  <2>2. CASE now >= duration /\ stage # "Landing"
    BY <1>1, <1>5, <2>2, FollowingIs
  <2>3. CASE ~(now >= duration)
    BY <1>1, <1>5, <2>3
  <2> QED
    BY <2>1, <2>2, <2>3
<1>7. stage' \in BeforeDeployment => stage' \notin {"RoverDeployment", "SurfaceOperations", "Complete"}
  BY DEF BeforeDeployment
<1>8. rover' = StowedRover /\ rover' \in RoverType /\ rover'.place <= MaxSurfaceSteps
  BY <1>1, StowedIs, TimelineAssumption
<1>9. TimelineTypeOK'
  BY <1>1, <1>3, <1>4, <1>6, <1>8, TimelinePhasesAre DEF TimelineTypeOK
<1> QED
  BY <1>6, <1>7, <1>8, <1>9 DEF TimelineInv

LEMMA DeploymentStepKeeps == ASSUME TimelineInv, DeploymentStep PROVE TimelineInv'
<1> DEFINE now == elapsed + stepLength
           r == Deployed(rover, now)
           phase == IF r.mode = "Fault" THEN "Fault" ELSE stage
<1>1. /\ stage = "RoverDeployment" /\ rover' = r
      /\ landed' = landed
      /\ stage' = (IF Ends(phase, now, r) THEN Following(phase) ELSE phase)
      /\ elapsed' = (IF Ends(phase, now, r) THEN 0 ELSE now)
      /\ stepLength' = stepLength /\ duration' = duration
  BY Zenon DEF DeploymentStep, Enter
<1>2. now \in Nat /\ duration \in Nat \ {0} /\ stepLength \in StepLengths /\ duration \in Durations
      /\ landed \in BOOLEAN /\ landed /\ rover \in RoverType
  BY <1>1, TimelineAssumption DEF TimelineInv, TimelineTypeOK
<1>3. \/ rover = StowedRover
      \/ rover.mode = "Deployment" /\ rover.deployed /\ rover.healthy /\ rover.charge = "full"
      \/ rover.mode = "SurfaceReady" /\ RoverDown
  BY <1>1 DEF TimelineInv
<1> DEFINE down == IF ~rover.deployed /\ 4 * now >= duration THEN DeployFromLander(rover) ELSE rover
\* Let down in time, up in time, and both in one step when the step is long.
<1>4. /\ down \in RoverType /\ down.place = rover.place
      /\ \/ down = StowedRover /\ ~(4 * now >= duration)
         \/ down.mode = "Deployment" /\ down.deployed /\ down.healthy /\ down.charge = "full"
         \/ down.mode = "SurfaceReady" /\ down.deployed /\ down.mastReady
  <2>1. DeployFromLander(StowedRover) = [StowedRover EXCEPT !.mode = "Deployment",
                                            !.deployed = TRUE, !.moving = FALSE]
    BY StowedIs DEF DeployFromLander
  <2>2. ~StowedRover.deployed
    BY DEF StowedRover
  <2>3. CASE rover = StowedRover
    BY <2>1, <2>2, <2>3, StowedIs DEF RoverType, RoverModes
  <2>4. CASE rover # StowedRover
    BY <1>2, <1>3, <2>4 DEF RoverDown
  <2> QED
    BY <2>3, <2>4
<1>5. r = (IF down.mode = "Deployment" /\ 4 * now >= 3 * duration
           THEN InitializeSurfaceSystems(down) ELSE down)
  BY DEF Deployed
<1> HIDE DEF down, r
<1>6. /\ r \in RoverType /\ r.place = rover.place
      /\ \/ r = StowedRover /\ ~(4 * now >= duration)
         \/ /\ r.mode = "Deployment" /\ ~(4 * now >= 3 * duration)
            /\ r.deployed /\ r.healthy /\ r.charge = "full"
         \/ r.mode = "SurfaceReady" /\ r.deployed /\ r.mastReady
  <2>1. CASE down.mode = "Deployment" /\ 4 * now >= 3 * duration
    <3>1. down.deployed /\ down.healthy /\ down.charge = "full"
      BY <1>4, <2>1, StowedIs
    <3>2. r = [down EXCEPT !.mode = "SurfaceReady", !.mastReady = TRUE]
      BY <1>5, <2>1, <3>1 DEF InitializeSurfaceSystems
    <3> QED
      BY <1>4, <3>1, <3>2 DEF RoverType, RoverModes
  <2>2. CASE ~(down.mode = "Deployment" /\ 4 * now >= 3 * duration)
    BY <1>4, <1>5, <2>2
  <2> QED
    BY <2>1, <2>2
<1>7. r.mode # "Fault" /\ phase = "RoverDeployment"
  BY <1>1, <1>6, StowedIs
<1>8. Ends(phase, now, r) <=> now >= duration
  BY <1>7 DEF Ends
<1>9. (stage' = "SurfaceOperations" /\ now >= duration) \/ stage' = "RoverDeployment"
  BY <1>1, <1>7, <1>8, FollowingIs
<1>10. now >= duration => r.mode = "SurfaceReady" /\ r.deployed /\ r.mastReady
  BY <1>2, <1>6
<1>11. elapsed' \in Nat /\ rover'.place <= MaxSurfaceSteps
  BY <1>1, <1>2, <1>6 DEF TimelineInv
<1>12. TimelineTypeOK'
  BY <1>1, <1>2, <1>6, <1>9, <1>11, TimelinePhasesAre DEF TimelineTypeOK
<1>13. stage' \notin BeforeDeployment \union {"Complete"}
  BY <1>9 DEF BeforeDeployment
<1> QED
  BY <1>1, <1>2, <1>6, <1>9, <1>10, <1>11, <1>12, <1>13 DEF TimelineInv, RoverDown
LEMMA OneFurther == \A p, m \in Nat : p + 1 \in Nat /\ (p < m => p + 1 <= m)
OBVIOUS

\* One step of the drive: the rover stays up, and the mission is a fault unless
\* it goes on driving or is at its target.
LEMMA DriveRight ==
    ASSUME NEW r \in RoverType, r.deployed, r.mastReady, NEW draw \in DriveDraws,
           r.place <= MaxSurfaceSteps,
           r.place < MaxSurfaceSteps \/ draw \in {"is there", "is there in a hazard", "hazard"}
    PROVE  LET d == DriveOnce(r, draw)
           IN  /\ d \in RoverType /\ d.deployed /\ d.mastReady /\ d.place <= MaxSurfaceSteps
               /\ HazardMet(draw) \/ d.mode \in {"Driving", "MissionComplete"}
<1>1. /\ r.place \in Nat /\ r.place + 1 \in Nat /\ MaxSurfaceSteps \in Nat
      /\ r.place < MaxSurfaceSteps => r.place + 1 <= MaxSurfaceSteps
  <2>1. r.place \in Nat
    BY DEF RoverType
  <2>2. MaxSurfaceSteps \in Nat
    BY TimelineAssumption
  <2> QED
    BY <2>1, <2>2, OneFurther, Zenon
<1>2. ASSUME NEW x \in RoverType
      PROVE  /\ Arrived(x) \in RoverType /\ Arrived(x).place = x.place
             /\ Arrived(x).deployed = x.deployed /\ Arrived(x).mastReady = x.mastReady
             /\ Arrived(x).mode = "MissionComplete"
  BY DEF Arrived, RoverType, RoverModes
<1>3. ASSUME NEW d \in {"moves", "rests", "drains"}, r.place < MaxSurfaceSteps
      PROVE  LET s == StepTowardWaypoint(r, d)
             IN  /\ s \in RoverType /\ s.deployed /\ s.mastReady
                 /\ s.place <= MaxSurfaceSteps /\ s.mode = "Driving"
  <2> DEFINE left == IF d = "drains" THEN "below 0.30" ELSE r.charge
             going == (d # "rests")
             place == r.place + 1
  <2>1. StepTowardWaypoint(r, d) =
          [r EXCEPT !.mode = "Driving", !.place = place, !.moving = going, !.charge = left]
    BY DEF StepTowardWaypoint
  <2>2. left \in Charges /\ going \in BOOLEAN /\ place \in Nat /\ place <= MaxSurfaceSteps
    BY <1>1, <1>3 DEF RoverType, Charges
  <2> HIDE DEF left, going, place
  <2> QED
    BY <2>1, <2>2 DEF RoverType, RoverModes
<1>4. CASE draw \in {"is there", "is there in a hazard"}
  <2>1. DriveOnce(r, draw) = Arrived(r)
    BY <1>4 DEF DriveOnce
  <2> QED
    BY <1>2, <2>1
<1>5. CASE draw \in {"moves", "rests", "drains"}
  <2>1. DriveOnce(r, draw) = StepTowardWaypoint(r, draw)
    BY <1>5 DEF DriveOnce
  <2> QED
    BY <1>3, <1>5, <2>1
<1>6. CASE draw \in {"arrives", "arrives in a hazard", "moves into a hazard"}
  <2>1. \/ DriveOnce(r, draw) = Arrived(StepTowardWaypoint(r, "moves"))
        \/ DriveOnce(r, draw) = StepTowardWaypoint(r, "moves")
    BY <1>6 DEF DriveOnce
  <2> QED
    BY <1>2, <1>3, <1>6, <2>1
<1>7. CASE draw = "hazard"
  <2>1. DriveOnce(r, draw) = [r EXCEPT !.mode = "HazardHold", !.moving = FALSE]
    BY <1>7 DEF DriveOnce, StepTowardWaypoint
  <2> QED
    BY <1>1, <1>7, <2>1 DEF RoverType, RoverModes, HazardMet
<1>8. CASE draw = "dies"
  <2>1. DriveOnce(r, draw) = [r EXCEPT !.mode = "Fault", !.moving = FALSE, !.place = r.place + 1,
                                       !.charge = "below 0.15"]
    BY <1>8 DEF DriveOnce, StepTowardWaypoint
  <2> QED
    BY <1>1, <1>8, <2>1 DEF RoverType, RoverModes, HazardMet, Charges
<1> QED
  BY <1>4, <1>5, <1>6, <1>7, <1>8 DEF DriveDraws, Draws

LEMMA SurfaceStepKeeps ==
    ASSUME TimelineInv, NEW draw \in DriveDraws, SurfaceStep(draw)
    PROVE  TimelineInv'
<1> DEFINE now == elapsed + stepLength
           drives == CanStep(rover)
           r == IF drives THEN DriveOnce(rover, draw) ELSE rover
           phase == IF drives /\ (r.mode = "Fault" \/ HazardMet(draw)) THEN "Fault" ELSE stage
<1>1. /\ stage = "SurfaceOperations" /\ rover' = r /\ landed' = landed
      /\ stage' = (IF Ends(phase, now, r) THEN Following(phase) ELSE phase)
      /\ elapsed' = (IF Ends(phase, now, r) THEN 0 ELSE now)
      /\ stepLength' = stepLength /\ duration' = duration
      /\ rover.place < MaxSurfaceSteps
         \/ draw \in {"is there", "is there in a hazard", "hazard"}
  BY Zenon DEF SurfaceStep, Enter
<1>2. /\ rover \in RoverType /\ rover.deployed /\ rover.mastReady /\ landed
      /\ rover.mode \in {"SurfaceReady", "Driving", "MissionComplete"}
      /\ rover.place <= MaxSurfaceSteps
      /\ stepLength \in StepLengths /\ duration \in Durations /\ landed \in BOOLEAN
      /\ now \in Nat
  <2>1. /\ rover.deployed /\ rover.mastReady /\ landed
        /\ rover.mode \in {"SurfaceReady", "Driving", "MissionComplete"}
    BY <1>1 DEF TimelineInv, RoverDown
  <2>2. /\ rover \in RoverType /\ rover.place <= MaxSurfaceSteps
        /\ stepLength \in StepLengths /\ duration \in Durations /\ landed \in BOOLEAN
        /\ elapsed \in Nat
    BY DEF TimelineInv, TimelineTypeOK
  <2>3. now \in Nat
    BY <2>2, TimelineAssumption
  <2> QED
    BY <2>1, <2>2, <2>3
<1>3. /\ r \in RoverType /\ r.deployed /\ r.mastReady /\ r.place <= MaxSurfaceSteps
      /\ phase = "Fault" \/ (phase = stage /\ r.mode \in {"Driving", "MissionComplete"})
  <2>1. CASE drives
    BY <1>1, <1>2, <2>1, DriveRight
  <2>2. CASE ~drives
    BY <1>2, <2>2 DEF CanStep
  <2> QED
    BY <2>1, <2>2
<1> HIDE DEF r, phase, drives
<1>4. \/ stage' = "Fault"
      \/ stage' = "SurfaceOperations" /\ r.mode \in {"Driving", "MissionComplete"}
      \/ stage' = "Complete" /\ r.mode = "MissionComplete"
  BY <1>1, <1>3, FollowingIs DEF Ends
<1>5. stage' \notin BeforeDeployment \union {"RoverDeployment"}
  BY <1>4 DEF BeforeDeployment
<1>6. elapsed' \in Nat
  BY <1>1, <1>2
<1>7. TimelineTypeOK'
  BY <1>1, <1>2, <1>3, <1>4, <1>6, TimelinePhasesAre DEF TimelineTypeOK
<1> QED
  BY <1>1, <1>2, <1>3, <1>4, <1>5, <1>7 DEF TimelineInv, RoverDown

LEMMA ResetTimelineKeeps == ASSUME TimelineInv, ResetTimeline PROVE TimelineInv'
<1>1. stage' \in BeforeDeployment /\ stage' \notin {"RoverDeployment", "SurfaceOperations", "Complete"}
  BY DEF ResetTimeline, BeforeDeployment
<1>2. rover' = StowedRover /\ rover' \in RoverType /\ rover'.place <= MaxSurfaceSteps
  BY StowedIs, TimelineAssumption DEF ResetTimeline
<1>3. TimelineTypeOK'
  BY <1>1, <1>2, TimelinePhasesAre DEF ResetTimeline, TimelineTypeOK, TimelineInv
<1> QED
  BY <1>1, <1>2, <1>3 DEF TimelineInv

LEMMA TimelineInvariant == TimelineSpec => []TimelineInv
<1>1. TimelineInv /\ [TimelineNext]_timelineVars => TimelineInv'
  <2>1. TimelineInv /\ UNCHANGED timelineVars => TimelineInv'
    BY DEF TimelineInv, TimelineTypeOK, timelineVars, RoverDown
  <2> QED
    BY <2>1, FlightStepKeeps, DeploymentStepKeeps, SurfaceStepKeeps, ResetTimelineKeeps
    DEF TimelineNext
<1> QED
  BY TimelineFresh, <1>1, PTL DEF TimelineSpec

\* The timeline and its rover keep their types.
THEOREM TimelineTyped == TimelineSpec => []TimelineTypeOK
<1>1. TimelineInv => TimelineTypeOK
  BY DEF TimelineInv
<1> QED
  BY TimelineInvariant, <1>1, PTL

\* No length of a step against that of a phase skips a step of the rover.
THEOREM RoverIsWhereTheMissionIs == TimelineSpec => []RoverFollowsTheMission
<1>1. ASSUME TimelineInv PROVE RoverFollowsTheMission
  <2>1. rover.mode # "Stowed" =>
          stage \in {"RoverDeployment", "SurfaceOperations", "Complete", "Fault"}
    BY <1>1, StowedIs, TimelinePhasesAre DEF TimelineInv, TimelineTypeOK
  <2> QED
    BY <1>1, <2>1 DEF TimelineInv, RoverFollowsTheMission, RoverDown
<1> QED
  BY TimelineInvariant, <1>1, PTL
-----------------------------------------------------------------------------
(* The downlink *)

Shown == [phase : MissionPhases, sequence : Nat]
Downlinked == {MetricPacket(i, q, v) : i \in Nat, q \in Nat, v \in Shown}
DownlinkKey == <<"craft", "craft", 101>>
ShownRow(i) == <<"craft", "craft", i>>
ShownRows == {ShownRow(i) : i \in 1 .. DownlinkMetrics}

StageHolds(a, capacity) ==
    /\ a = [last |-> a.last, held |-> a.held, table |-> a.table,
            capacity |-> capacity, rejects |-> {"duplicate"}]
    /\ a.held \in Seq(Downlinked) /\ Len(a.held) <= capacity

\* What a stage saw before a reset is no number the next packets begin with.
NotFirst(a) == DownlinkKey \in DOMAIN a.last => a.last[DownlinkKey] \in Nat \ {0, 1}
LastWas(a, n) == DownlinkKey \in DOMAIN a.last /\ a.last[DownlinkKey] = n

\* Antenna and archive are where the numbering and the counters say: only a
\* full archive refuses.
Linked(q, receiver, kept, stats) ==
    /\ q \in Nat /\ stats \in [DOMAIN NoDownlinkStats -> Nat]
    /\ StageHolds(receiver, DownlinkQueue) /\ receiver.held = <<>>
    /\ StageHolds(kept, DownlinkArchive) /\ DOMAIN kept.table \subseteq ShownRows
    /\ Len(kept.held) <= q
    /\ q = 0 => NotFirst(receiver) /\ NotFirst(kept)
    /\ q > 0 => LastWas(receiver, q) /\ LastWas(kept, Len(kept.held))
    /\ stats.encoded = stats.received /\ stats.accepted = Len(kept.held)
    /\ stats.rejected = 0 => Len(kept.held) = q
    /\ stats.rejected > 0 => Len(kept.held) = DownlinkArchive

\* The first m rows show this value.
FirstShow(table, m, value) ==
    \A i \in 1 .. m : ShownRow(i) \in DOMAIN table /\ table[ShownRow(i)].value = value

\* In the t-th step, after m metrics.
Posting(s, m, t, value) ==
    /\ Linked(s.sequence, s.antenna, s.archive, s.stats)
    /\ s.stats.ticks = t
    /\ s.thrown \in BOOLEAN
    /\ s.thrown => s.stats.rejected > 0
    /\ ~s.thrown => s.sequence >= m
    /\ s.stats.rejected = 0 => /\ s.sequence = (t - 1) * DownlinkMetrics + m
                               /\ FirstShow(s.archive.table, m, value)

DownlinkInv ==
    /\ craft \in EngineType
    /\ Linked(packetSequence, antenna, archive, downlinkStats)
    /\ packetSequence > 0 => packetSequence > 1 /\ Len(archive.held) > 1
    /\ downlinkStats.rejected = 0 =>
          /\ packetSequence = downlinkStats.ticks * DownlinkMetrics
          /\ downlinkStats.ticks > 0 => FirstShow(archive.table, DownlinkMetrics, craft.report)

IsMetric(p, i, q, v) ==
    /\ p \in Downlinked /\ p.type = "telemetry" /\ p.kind = "metric" /\ p.seq = q
    /\ p.value = v /\ StreamKey(p) = DownlinkKey /\ MetricKey(p) = ShownRow(i)

LEMMA PacketIs ==
    ASSUME NEW i \in Nat, NEW q \in Nat, NEW v \in Shown
    PROVE  IsMetric(MetricPacket(i, q, v), i, q, v)
BY DEF IsMetric, MetricPacket, Downlinked, StreamKey, MetricKey, DownlinkKey, ShownRow

\* A stage with room takes a packet whose number is not the last one.
LEMMA HeldBy ==
    ASSUME NEW a, NEW capacity \in Nat, StageHolds(a, capacity), ~IsFull(a),
           NEW p \in Downlinked, NEW table
    PROVE  LET h == Holding(a, DownlinkKey, p, table)
           IN  /\ StageHolds(h, capacity) /\ h.table = table
               /\ h.held = Append(a.held, p) /\ Len(h.held) = Len(a.held) + 1
               /\ LastWas(h, p.seq)
<1> DEFINE h == Holding(a, DownlinkKey, p, table)
<1>1. /\ h = [last |-> h.last, held |-> h.held, table |-> h.table,
              capacity |-> a.capacity, rejects |-> a.rejects]
      /\ h.held = Append(a.held, p) /\ h.table = table
      /\ h.last = Put(a.last, DownlinkKey, p.seq)
  BY DEF Holding
<1> HIDE DEF h
<1>2. a.capacity = capacity /\ a.rejects = {"duplicate"} /\ a.held \in Seq(Downlinked)
  BY DEF StageHolds
<1>3. Len(a.held) \in Nat /\ Len(a.held) < capacity
  BY <1>2 DEF IsFull
<1>4. Append(a.held, p) \in Seq(Downlinked) /\ Len(Append(a.held, p)) = Len(a.held) + 1
  BY <1>2
<1>5. LastWas(h, p.seq)
  BY <1>1 DEF LastWas, Put
<1>6. StageHolds(h, capacity)
  <2>1. Len(a.held) + 1 <= capacity
    BY <1>3
  <2> QED
    BY <1>1, <1>2, <1>4, <2>1 DEF StageHolds
<1> QED
  BY <1>1, <1>4, <1>5, <1>6 DEF h

LEMMA NoRepetition ==
    ASSUME NEW a, NEW q \in Nat, NEW n \in Nat, NEW p, p.seq = q + 1, n <= q,
           q = 0 => NotFirst(a), q > 0 => LastWas(a, n)
    PROVE  ~IsDuplicate(a, DownlinkKey, p)
BY DEF IsDuplicate, NotFirst, LastWas

LEMMA AntennaTakes ==
    ASSUME NEW a, StageHolds(a, DownlinkQueue), a.held = <<>>, NEW q \in Nat,
           q = 0 => NotFirst(a), q > 0 => LastWas(a, q),
           NEW i \in Nat, NEW v \in Shown
    PROVE  LET p == MetricPacket(i, q + 1, v)
               b == Popped(StationAfter(a, p))
           IN  /\ StationAnswer(a, p) = "Accepted"
               /\ StageHolds(b, DownlinkQueue) /\ b.held = <<>> /\ LastWas(b, q + 1)
<1> DEFINE p == MetricPacket(i, q + 1, v)
<1>1. /\ p \in Downlinked /\ p.type = "telemetry" /\ p.kind = "metric" /\ p.seq = q + 1
      /\ StreamKey(p) = DownlinkKey
  <2>1. q + 1 \in Nat
    OBVIOUS
  <2>2. IsMetric(p, i, q + 1, v)
    BY <2>1, PacketIs
  <2> HIDE DEF p
  <2> QED
    BY <2>2 DEF IsMetric
<1> HIDE DEF p
<1>2. ~IsDuplicate(a, DownlinkKey, p)
  BY <1>1, NoRepetition
<1>3. ~IsOutOfOrder(a, DownlinkKey, p)
  BY DEF StageHolds, IsOutOfOrder
<1>4. ~IsFull(a)
  BY DownlinkAssumption DEF IsFull, StageHolds
<1>5. StationAnswer(a, p) = "Accepted"
  BY <1>1, <1>2, <1>3, <1>4 DEF StationAnswer, Readable, GroundPacketTypes
<1> DEFINE h == Holding(a, DownlinkKey, p, a.table)
<1>6. StationAfter(a, p) = h
  BY <1>1, <1>5 DEF StationAfter
<1>7. StageHolds(h, DownlinkQueue) /\ h.held = Append(<<>>, p) /\ LastWas(h, q + 1)
  BY <1>1, <1>4, HeldBy, DownlinkAssumption
<1> HIDE DEF h
<1> DEFINE rest == Tail(h.held)
<1>8. rest = <<>> /\ rest \in Seq(Downlinked) /\ Len(rest) = 0
  BY <1>7
<1>9. Popped(h) = [h EXCEPT !.held = rest]
  BY DEF Popped
<1> HIDE DEF rest
<1>10. [h EXCEPT !.held = rest] = [last |-> h.last, held |-> rest, table |-> h.table,
                                   capacity |-> DownlinkQueue, rejects |-> {"duplicate"}]
  <2> DEFINE checks == {"duplicate"}
  <2>1. h = [last |-> h.last, held |-> h.held, table |-> h.table,
             capacity |-> DownlinkQueue, rejects |-> checks]
    BY <1>7 DEF StageHolds
  <2> HIDE DEF checks
  <2>2. [h EXCEPT !.held = rest] = [last |-> h.last, held |-> rest, table |-> h.table,
                                    capacity |-> DownlinkQueue, rejects |-> checks]
    BY <2>1
  <2> QED
    BY <2>2 DEF checks
<1> DEFINE b == Popped(h)
<1>11. /\ b = [last |-> b.last, held |-> b.held, table |-> b.table,
               capacity |-> DownlinkQueue, rejects |-> {"duplicate"}]
       /\ b.held = <<>> /\ b.last = h.last
  BY <1>8, <1>9, <1>10
<1> HIDE DEF b
<1>12. StageHolds(b, DownlinkQueue) /\ b.held = <<>> /\ LastWas(b, q + 1)
  BY <1>7, <1>8, <1>11, DownlinkAssumption DEF StageHolds, LastWas
<1> QED
  BY <1>5, <1>6, <1>12 DEF b, p

LEMMA ArchiveAnswers ==
    ASSUME NEW a, StageHolds(a, DownlinkArchive), NEW q \in Nat, Len(a.held) <= q,
           q = 0 => NotFirst(a), q > 0 => LastWas(a, Len(a.held)),
           NEW i \in Nat, NEW v \in Shown
    PROVE  LET p == MetricPacket(i, q + 1, v)
               b == TelemetryAfter(a, p)
           IN  /\ Len(a.held) = DownlinkArchive => TelemetryAnswer(a, p) # "Accepted" /\ b = a
               /\ Len(a.held) < DownlinkArchive =>
                     /\ TelemetryAnswer(a, p) = "Accepted"
                     /\ StageHolds(b, DownlinkArchive) /\ LastWas(b, q + 1)
                     /\ Len(b.held) = Len(a.held) + 1
                     /\ b.table = Put(a.table, ShownRow(i), p)
<1> DEFINE p == MetricPacket(i, q + 1, v)
<1>1. /\ p \in Downlinked /\ p.type = "telemetry" /\ p.kind = "metric" /\ p.seq = q + 1
      /\ StreamKey(p) = DownlinkKey /\ MetricKey(p) = ShownRow(i)
  <2>1. q + 1 \in Nat
    OBVIOUS
  <2>2. IsMetric(p, i, q + 1, v)
    BY <2>1, PacketIs
  <2> HIDE DEF p
  <2> QED
    BY <2>2 DEF IsMetric
<1> HIDE DEF p
<1>2. Len(a.held) \in Nat /\ a.capacity = DownlinkArchive
  BY DEF StageHolds
<1>3. ~IsDuplicate(a, DownlinkKey, p)
  BY <1>1, <1>2, NoRepetition
<1>4. ~IsOutOfOrder(a, DownlinkKey, p)
  BY DEF StageHolds, IsOutOfOrder
<1>5. TelemetryAnswer(a, p) = IF IsFull(a) THEN "CapacityFull" ELSE "Accepted"
  BY <1>1, <1>3, <1>4 DEF TelemetryAnswer
<1>6. ASSUME Len(a.held) = DownlinkArchive
      PROVE  TelemetryAnswer(a, p) # "Accepted" /\ TelemetryAfter(a, p) = a
  <2>1. TelemetryAnswer(a, p) # "Accepted"
    BY <1>2, <1>5, <1>6, DownlinkAssumption DEF IsFull
  <2> QED
    BY <2>1 DEF TelemetryAfter
<1>7. ASSUME Len(a.held) < DownlinkArchive
      PROVE  /\ TelemetryAnswer(a, p) = "Accepted"
             /\ StageHolds(TelemetryAfter(a, p), DownlinkArchive)
             /\ LastWas(TelemetryAfter(a, p), q + 1)
             /\ Len(TelemetryAfter(a, p).held) = Len(a.held) + 1
             /\ TelemetryAfter(a, p).table = Put(a.table, ShownRow(i), p)
  <2>1. ~IsFull(a)
    BY <1>2, <1>7, DownlinkAssumption DEF IsFull
  <2>2. TelemetryAnswer(a, p) = "Accepted"
    BY <1>5, <2>1
  <2> DEFINE table == Put(a.table, ShownRow(i), p)
  <2>3. TelemetryAfter(a, p) = Holding(a, DownlinkKey, p, table)
    BY <1>1, <2>2 DEF TelemetryAfter
  <2> HIDE DEF table
  <2>4. LET h == Holding(a, DownlinkKey, p, table)
        IN  /\ StageHolds(h, DownlinkArchive) /\ h.table = table
            /\ Len(h.held) = Len(a.held) + 1 /\ LastWas(h, p.seq)
    BY <1>1, <2>1, HeldBy, DownlinkAssumption
  <2> QED
    BY <1>1, <2>2, <2>3, <2>4 DEF table
<1> QED
  BY <1>6, <1>7 DEF p
LEMMA RowsApart == \A i, j \in Nat : ShownRow(i) = ShownRow(j) => i = j
BY DEF ShownRow

LEMMA RowShown ==
    ASSUME NEW table, NEW v, NEW m \in Nat \ {0}, FirstShow(table, m - 1, v), NEW p, p.value = v
    PROVE  FirstShow(Put(table, ShownRow(m), p), m, v)
<1> DEFINE new == Put(table, ShownRow(m), p)
<1>1. /\ DOMAIN new = DOMAIN table \union {ShownRow(m)} /\ new[ShownRow(m)] = p
      /\ \A k \in DOMAIN table : k # ShownRow(m) => new[k] = table[k]
  BY DEF Put
<1> HIDE DEF new
<1>2. ASSUME NEW i \in 1 .. m
      PROVE  ShownRow(i) \in DOMAIN new /\ new[ShownRow(i)].value = v
  <2>1. CASE i = m
    BY <1>1, <2>1
  <2>2. CASE i # m
    <3>1. i \in 1 .. (m - 1) /\ i \in Nat
      BY <2>2
    <3>2. ShownRow(i) \in DOMAIN table /\ table[ShownRow(i)].value = v
      BY <3>1 DEF FirstShow
    <3>3. ShownRow(i) # ShownRow(m)
      BY <2>2, <3>1, RowsApart
    <3> QED
      BY <1>1, <3>2, <3>3
  <2> QED
    BY <2>1, <2>2
<1> QED
  BY <1>2 DEF FirstShow, new

LEMMA MetricPublished ==
    ASSUME NEW s, NEW m \in 1 .. DownlinkMetrics, NEW t \in Nat \ {0}, NEW v \in Shown,
           Posting(s, m - 1, t, v)
    PROVE  Posting(PublishMetric(s, m, v), m, t, v)
<1>0. /\ DownlinkMetrics \in Nat /\ DownlinkArchive \in Nat /\ m \in Nat /\ m # 0
      /\ m - 1 \in Nat
  BY DownlinkAssumption
<1>1. CASE s.thrown
  <2>1. PublishMetric(s, m, v) = s
    BY <1>1 DEF PublishMetric
  <2>2. s.stats.rejected # 0
    BY <1>1, <1>0 DEF Posting, Linked
  <2> QED
    BY <1>1, <2>1, <2>2 DEF Posting
<1>2. CASE ~s.thrown
  <2> DEFINE q == s.sequence
             p == MetricPacket(m, q + 1, v)
             b == Popped(StationAfter(s.antenna, p))
             through == StationAnswer(s.antenna, p) = "Accepted"
             kept == through /\ TelemetryAnswer(s.archive, p) = "Accepted"
             c == IF through THEN TelemetryAfter(s.archive, p) ELSE s.archive
             d == [s.stats EXCEPT !.encoded = @ + 1,
                                  !.received = IF through THEN @ + 1 ELSE @,
                                  !.accepted = IF kept THEN @ + 1 ELSE @,
                                  !.rejected = IF kept THEN @ ELSE @ + 1]
             new == PublishMetric(s, m, v)
  <2>1. q \in Nat /\ Linked(q, s.antenna, s.archive, s.stats)
    BY DEF Posting, Linked
  <2>2. /\ through
        /\ StageHolds(b, DownlinkQueue) /\ b.held = <<>> /\ LastWas(b, q + 1)
    <3>1. /\ StageHolds(s.antenna, DownlinkQueue) /\ s.antenna.held = <<>>
          /\ q = 0 => NotFirst(s.antenna)
          /\ q > 0 => LastWas(s.antenna, q)
      BY <2>1 DEF Linked
    <3> HIDE DEF q
    <3> QED
      BY <1>0, <2>1, <3>1, AntennaTakes
  <2>3. new = [sequence |-> q + 1, antenna |-> b, archive |-> c, thrown |-> ~kept, stats |-> d]
    <3> DEFINE stationed == IF through THEN b ELSE StationAfter(s.antenna, p)
    <3>1. new = [sequence |-> q + 1, antenna |-> stationed, archive |-> c, thrown |-> ~kept,
                 stats |-> d]
      BY <1>2 DEF PublishMetric
    <3>2. stationed = b
      BY <2>2
    <3> HIDE DEF stationed, new, b, c, d, kept
    <3> QED
      BY <3>1, <3>2
  <2>4. /\ Len(s.archive.held) \in Nat /\ Len(s.archive.held) <= q
        /\ Len(s.archive.held) <= DownlinkArchive
        /\ StageHolds(s.archive, DownlinkArchive)
        /\ q = 0 => NotFirst(s.archive)
        /\ q > 0 => LastWas(s.archive, Len(s.archive.held))
        /\ DOMAIN s.archive.table \subseteq ShownRows
    BY <2>1 DEF Linked, StageHolds
  <2>5. /\ Len(s.archive.held) = DownlinkArchive => ~kept /\ c = s.archive
        /\ Len(s.archive.held) < DownlinkArchive =>
              /\ kept /\ StageHolds(c, DownlinkArchive) /\ LastWas(c, q + 1)
              /\ Len(c.held) = Len(s.archive.held) + 1
              /\ c.table = Put(s.archive.table, ShownRow(m), p)
    <3> DEFINE a == s.archive
               answer == TelemetryAnswer(a, p)
               after == TelemetryAfter(a, p)
    <3>1. /\ Len(a.held) = DownlinkArchive => answer # "Accepted" /\ after = a
          /\ Len(a.held) < DownlinkArchive =>
                /\ answer = "Accepted"
                /\ StageHolds(after, DownlinkArchive) /\ LastWas(after, q + 1)
                /\ Len(after.held) = Len(a.held) + 1
                /\ after.table = Put(a.table, ShownRow(m), p)
      <4> HIDE DEF q, a
      <4>1. StageHolds(a, DownlinkArchive) /\ Len(a.held) <= q
            /\ (q = 0 => NotFirst(a)) /\ (q > 0 => LastWas(a, Len(a.held)))
        BY <2>4 DEF a
      <4> QED
        BY <1>0, <2>1, <4>1, ArchiveAnswers
    <3>2. kept <=> answer = "Accepted"
      BY <2>2
    <3>3. c = after
      BY <2>2
    <3> HIDE DEF kept, c, answer, after
    <3> QED
      BY <3>1, <3>2, <3>3
  <2>6. p.value = v
    BY DEF MetricPacket
  <2>7. /\ s.stats \in [DOMAIN NoDownlinkStats -> Nat]
        /\ s.stats.encoded = s.stats.received /\ s.stats.accepted = Len(s.archive.held)
        /\ s.stats.rejected = 0 => Len(s.archive.held) = q
        /\ s.stats.rejected > 0 => Len(s.archive.held) = DownlinkArchive
        /\ s.stats.ticks = t
    BY <2>1 DEF Linked, Posting
  <2> HIDE DEF p, b, c, kept, new, q, through
  <2>8. /\ d \in [DOMAIN NoDownlinkStats -> Nat] /\ d.ticks = t
        /\ d.encoded = d.received
        /\ kept => d.accepted = s.stats.accepted + 1 /\ d.rejected = s.stats.rejected
        /\ ~kept => d.accepted = s.stats.accepted /\ d.rejected = s.stats.rejected + 1
    <3> DEFINE x == s.stats.encoded + 1
               y == s.stats.received + 1
               z == IF kept THEN s.stats.accepted + 1 ELSE s.stats.accepted
               w == IF kept THEN s.stats.rejected ELSE s.stats.rejected + 1
    <3>1. d = [s.stats EXCEPT !.encoded = x, !.received = y, !.accepted = z, !.rejected = w]
      BY <2>2
    <3>2. /\ s.stats.encoded \in Nat /\ s.stats.received \in Nat
          /\ s.stats.accepted \in Nat /\ s.stats.rejected \in Nat
      BY <2>7 DEF NoDownlinkStats
    <3>3. x \in Nat /\ y \in Nat /\ z \in Nat /\ w \in Nat /\ x = y
      <4> HIDE DEF kept
      <4>1. x \in Nat /\ y \in Nat
        BY <3>2
      <4>2. z \in Nat
        BY <3>2
      <4>3. w \in Nat
        BY <3>2
      <4>4. x = y
        BY <2>7
      <4> QED
        BY <4>1, <4>2, <4>3, <4>4
    <3> HIDE DEF d, x, y, z, w
    <3>4. d \in [DOMAIN NoDownlinkStats -> Nat]
      BY <2>7, <3>1, <3>3 DEF NoDownlinkStats
    <3>5. d.ticks = t /\ d.encoded = x /\ d.received = y /\ d.accepted = z /\ d.rejected = w
      BY <2>7, <3>1 DEF NoDownlinkStats
    <3> QED
      BY <3>3, <3>4, <3>5 DEF z, w
  <2>9. /\ d.rejected \in Nat /\ s.stats.rejected \in Nat
    BY <2>7, <2>8 DEF NoDownlinkStats
  <2> HIDE DEF d
  <2>10. q >= m - 1 /\ (s.stats.rejected = 0 => /\ q = (t - 1) * DownlinkMetrics + (m - 1)
                                              /\ FirstShow(s.archive.table, m - 1, v))
    BY <1>2 DEF Posting, q
  <2>11. /\ new.sequence = q + 1 /\ new.antenna = b /\ new.archive = c
         /\ new.thrown = ~kept /\ new.stats = d
    BY <2>3
  <2>12. q + 1 \in Nat /\ q + 1 > 0 /\ q + 1 # 0 /\ q + 1 >= m
    BY <1>0, <2>1, <2>10
  <2>13. CASE Len(s.archive.held) < DownlinkArchive
    <3>1. /\ kept /\ StageHolds(c, DownlinkArchive) /\ LastWas(c, q + 1)
          /\ Len(c.held) = Len(s.archive.held) + 1
          /\ c.table = Put(s.archive.table, ShownRow(m), p)
      BY <2>5, <2>13
    <3>2. ~(s.stats.rejected > 0) /\ s.stats.rejected = 0
      BY <1>0, <2>4, <2>7, <2>9, <2>13
    <3>3. Len(s.archive.held) = q /\ Len(c.held) = q + 1
      BY <2>7, <3>1, <3>2
    <3>4. DOMAIN c.table \subseteq ShownRows
      BY <2>4, <3>1 DEF Put, ShownRows
    <3>5. FirstShow(c.table, m, v)
      BY <1>0, <2>6, <2>10, <3>1, <3>2, RowShown
    <3>6. d.rejected = 0 /\ d.accepted = q + 1
      BY <2>7, <2>8, <3>1, <3>2, <3>3
    <3>7. Linked(q + 1, b, c, d)
      BY <2>2, <2>8, <2>12, <3>1, <3>3, <3>4, <3>6 DEF Linked
    <3>8. q + 1 = (t - 1) * DownlinkMetrics + m
      <4> DEFINE past == (t - 1) * DownlinkMetrics
      <4>1. past \in Nat /\ q = past + (m - 1)
        BY <1>0, <2>10, <3>2
      <4> HIDE DEF past
      <4>2. q + 1 = past + m
        BY <1>0, <4>1
      <4> QED
        BY <4>2 DEF past
    <3>9. new.thrown = FALSE /\ new.stats.ticks = t
      BY <2>8, <2>11, <3>1
    <3> QED
      BY <2>11, <2>12, <3>5, <3>7, <3>8, <3>9 DEF Posting, new
  <2>14. CASE Len(s.archive.held) = DownlinkArchive
    <3>1. ~kept /\ c = s.archive
      BY <2>5, <2>14
    <3>2. d.rejected > 0 /\ d.rejected # 0 /\ d.accepted = Len(c.held)
      BY <2>7, <2>8, <2>9, <3>1
    <3>3. q > 0
      BY <1>0, <2>1, <2>4, <2>14, DownlinkAssumption
    <3>4. Len(c.held) <= q + 1
      BY <2>1, <2>4, <3>1
    <3>5. Linked(q + 1, b, c, d)
      BY <2>2, <2>4, <2>8, <2>12, <2>14, <3>1, <3>2, <3>3, <3>4 DEF Linked
    <3>6. new.thrown = TRUE /\ new.stats.ticks = t
      BY <2>8, <2>11, <3>1
    <3> QED
      BY <2>11, <2>12, <3>2, <3>5, <3>6 DEF Posting, new
  <2> QED
    BY <1>0, <2>4, <2>13, <2>14
<1> QED
  BY <1>1, <1>2 DEF Posting

LEMMA SmallestNat ==
    ASSUME NEW T, T \subseteq Nat, T # {}
    PROVE  \E x \in T : \A y \in T : x <= y
<1>1. IsWellFoundedOn(OpToRel(<, Nat), Nat)
  BY NatLessThanWellFounded
<1>2. PICK x \in T : \A y \in T : ~(<<y, x>> \in OpToRel(<, Nat))
  BY <1>1, WFMin
<1>3. \A y \in T : ~(y < x)
  BY <1>2 DEF OpToRel
<1> QED
  BY <1>3

\* publish() goes through the metrics one by one.
LEMMA MetricsInTurn ==
    ASSUME NEW s, NEW v
    PROVE  \E f : /\ f[0] = s /\ f[DownlinkMetrics] = PublishAll(s, v)
                 /\ \A m \in 1 .. DownlinkMetrics : f[m] = PublishMetric(f[m - 1], m, v)
<1> DEFINE Upto(f, n) == [m \in 0 .. n |-> IF m = 0 THEN s ELSE PublishMetric(f[m - 1], m, v)]
<1>0. DownlinkMetrics \in Nat
  BY DownlinkAssumption
<1>1. \A n \in 0 .. DownlinkMetrics : \E f : f = Upto(f, n)
  <2> DEFINE T == {n \in 0 .. DownlinkMetrics : ~\E f : f = Upto(f, n)}
  <2>1. SUFFICES ASSUME T # {} PROVE FALSE
    OBVIOUS
  <2>2. PICK n \in T : \A k \in T : n <= k
    <3>1. T \subseteq Nat
      BY <1>0
    <3> HIDE DEF T
    <3> QED
      BY <2>1, <3>1, SmallestNat
  <2>3. n \in Nat /\ n <= DownlinkMetrics
    BY <1>0, <2>2
  <2>4. CASE n = 0
    <3> DEFINE f == [m \in 0 .. 0 |-> s]
    <3>1. f = Upto(f, n)
      BY <2>4
    <3> QED
      BY <2>2, <3>1
  <2>5. CASE n # 0
    <3>1. n - 1 \in 0 .. DownlinkMetrics /\ ~(n <= n - 1)
      BY <1>0, <2>3, <2>5
    <3>2. PICK g : g = Upto(g, n - 1)
      BY <2>2, <3>1
    <3> DEFINE last == PublishMetric(g[n - 1], n, v)
               f == [m \in 0 .. n |-> IF m = n THEN last ELSE g[m]]
    <3>3. \A m \in 0 .. (n - 1) : f[m] = g[m]
      BY <2>3
    <3>4. \A m \in 0 .. (n - 1) : g[m] = IF m = 0 THEN s ELSE PublishMetric(g[m - 1], m, v)
      BY <3>2
    <3>5. f[n] = last
      BY <2>3
    <3>6. ASSUME NEW m \in 0 .. n
          PROVE  f[m] = IF m = 0 THEN s ELSE PublishMetric(f[m - 1], m, v)
      <4> HIDE DEF f, last
      <4>1. CASE m = n
        <5>1. n - 1 \in 0 .. (n - 1)
          BY <2>3, <2>5
        <5>2. f[n - 1] = g[n - 1]
          BY <3>3, <5>1
        <5> QED
          BY <2>5, <3>5, <4>1, <5>2 DEF last
      <4>2. CASE m # n
        <5>1. m \in 0 .. (n - 1) /\ (m # 0 => m - 1 \in 0 .. (n - 1))
          BY <2>3, <4>2
        <5> QED
          BY <3>3, <3>4, <5>1
      <4> QED
        BY <4>1, <4>2
    <3>7. f = Upto(f, n)
      <4>1. f = [m \in 0 .. n |-> f[m]]
        OBVIOUS
      <4> HIDE DEF f
      <4> QED
        BY <3>6, <4>1
    <3> QED
      BY <2>2, <3>7
  <2> QED
    BY <2>4, <2>5
<1> DEFINE f == CHOOSE g : g = Upto(g, DownlinkMetrics)
<1>2. f = Upto(f, DownlinkMetrics)
  <2>1. \E g : g = Upto(g, DownlinkMetrics)
    BY <1>0, <1>1
  <2> HIDE DEF Upto
  <2> QED
    BY <2>1
<1>3. PublishAll(s, v) = f[DownlinkMetrics]
  BY DEF PublishAll
<1> HIDE DEF f
<1>4. f[0] = s
  BY <1>0, <1>2
<1>5. \A m \in 1 .. DownlinkMetrics : f[m] = PublishMetric(f[m - 1], m, v)
  BY <1>0, <1>2
<1> QED
  BY <1>3, <1>4, <1>5

LEMMA AllPublished ==
    ASSUME NEW s, NEW t \in Nat \ {0}, NEW v \in Shown, Posting(s, 0, t, v)
    PROVE  Posting(PublishAll(s, v), DownlinkMetrics, t, v)
<1>0. DownlinkMetrics \in Nat
  BY DownlinkAssumption
<1>1. PICK f : /\ f[0] = s /\ f[DownlinkMetrics] = PublishAll(s, v)
               /\ \A m \in 1 .. DownlinkMetrics : f[m] = PublishMetric(f[m - 1], m, v)
  BY MetricsInTurn
<1> DEFINE T == {m \in 0 .. DownlinkMetrics : ~Posting(f[m], m, t, v)}
<1>2. ASSUME T # {} PROVE FALSE
  <2>1. PICK n \in T : \A k \in T : n <= k
    <3>1. T \subseteq Nat
      BY <1>0
    <3> HIDE DEF T
    <3> QED
      BY <1>2, <3>1, SmallestNat
  <2>2. n \in 0 .. DownlinkMetrics /\ ~Posting(f[n], n, t, v)
    BY <2>1
  <2>3. n # 0
    BY <1>1, <2>2
  <2>4. /\ n \in 1 .. DownlinkMetrics /\ n - 1 \in 0 .. DownlinkMetrics /\ ~(n <= n - 1)
    BY <1>0, <2>2, <2>3
  <2>5. Posting(f[n - 1], n - 1, t, v)
    BY <2>1, <2>4
  <2>6. f[n] = PublishMetric(f[n - 1], n, v)
    BY <1>1, <2>4
  <2> QED
    BY <2>2, <2>4, <2>5, <2>6, MetricPublished
<1>3. DownlinkMetrics \in 0 .. DownlinkMetrics
  BY <1>0
<1>4. Posting(f[DownlinkMetrics], DownlinkMetrics, t, v)
  BY <1>2, <1>3
<1> QED
  BY <1>1, <1>4

\* A step of the engine that throws leaves the report of the last one.
LEMMA ThrownShowsNothing ==
    ASSUME NEW m \in EngineType, NEW draw \in EngineDraws, draw.throws
    PROVE  EngineAfter(m, draw).report = m.report
<1> DEFINE p == Planned(m)
<1>1. p \in EngineType /\ p.report = m.report
  BY EngineAssumption DEF Planned, EngineType, Injecting, NotPlanned
<1>2. Counted(p).report = p.report
  <2> HIDE DEF p
  <2> DEFINE e == IF Injecting(p) \/ (p.driven /\ ~Propagates(p)) THEN p.elapsed ELSE p.elapsed + 1
             n == p.sequence + 1
  <2>1. Counted(p) = [p EXCEPT !.sequence = n, !.elapsed = e]
    BY DEF Counted
  <2> HIDE DEF e, n
  <2> QED
    BY <1>1, <2>1 DEF EngineType
<1> QED
  BY <1>1, <1>2 DEF EngineAfter

LEMMA DownlinkFresh == DownlinkInit => DownlinkInv
<1> SUFFICES ASSUME DownlinkInit PROVE DownlinkInv
  OBVIOUS
<1>1. craft \in EngineType
  BY FreshEngine DEF DownlinkInit
<1>2. /\ packetSequence = 0 /\ downlinkStats = NoDownlinkStats
  BY DEF DownlinkInit
<1>3. /\ StageHolds(antenna, DownlinkQueue) /\ antenna.held = <<>> /\ DOMAIN antenna.last = {}
      /\ StageHolds(archive, DownlinkArchive) /\ archive.held = <<>>
      /\ DOMAIN archive.last = {} /\ DOMAIN archive.table = {}
  <2> DEFINE New(n) == NewStage(n, {"duplicate"})
  <2>1. <<>> \in Seq(Downlinked) /\ Len(<<>>) = 0
    OBVIOUS
  <2>2. \A n \in Nat : /\ StageHolds(New(n), n) /\ New(n).held = <<>>
                       /\ DOMAIN New(n).last = {} /\ DOMAIN New(n).table = {}
    BY <2>1 DEF NewStage, NoEntries, StageHolds
  <2> HIDE DEF New
  <2>3. antenna = New(DownlinkQueue) /\ archive = New(DownlinkArchive)
    BY DEF DownlinkInit, New
  <2> QED
    BY <2>2, <2>3, DownlinkAssumption
<1>4. /\ downlinkStats \in [DOMAIN NoDownlinkStats -> Nat]
      /\ downlinkStats.encoded = 0 /\ downlinkStats.received = 0 /\ downlinkStats.accepted = 0
      /\ downlinkStats.rejected = 0 /\ downlinkStats.ticks = 0
  BY <1>2 DEF NoDownlinkStats
<1>5. Len(archive.held) = 0
  BY <1>3
<1>6. Linked(0, antenna, archive, downlinkStats)
  BY <1>3, <1>4, <1>5 DEF Linked, NotFirst
<1>7. 0 = downlinkStats.ticks * DownlinkMetrics
  BY <1>4, DownlinkAssumption
<1> QED
  BY <1>1, <1>2, <1>4, <1>6, <1>7 DEF DownlinkInv

LEMMA DownlinkStepKeeps ==
    ASSUME DownlinkInv, NEW draw \in EngineDraws, DownlinkStep(draw)
    PROVE  DownlinkInv'
<1>1. craft \in EngineType /\ Possible(craft, draw) /\ craft' = EngineAfter(craft, draw)
  BY DEF DownlinkInv, DownlinkStep
<1>2. craft' \in EngineType
  BY <1>1, EngineStepTyped
<1>3. CASE draw.throws
  <2>1. UNCHANGED <<antenna, archive, packetSequence, downlinkStats>>
    BY <1>3 DEF DownlinkStep
  <2>2. craft'.report = craft.report
    BY <1>1, <1>3, ThrownShowsNothing
  <2> QED
    BY <1>2, <2>1, <2>2 DEF DownlinkInv
<1>4. CASE ~draw.throws
  <2> DEFINE v == craft'.report
             t == downlinkStats.ticks + 1
             counted == [downlinkStats EXCEPT !.ticks = @ + 1]
             s == [sequence |-> packetSequence, antenna |-> antenna, archive |-> archive,
                   thrown |-> FALSE, stats |-> counted]
             after == PublishAll(s, v)
  <2>1. /\ antenna' = after.antenna /\ archive' = after.archive
        /\ packetSequence' = after.sequence /\ downlinkStats' = after.stats
    BY <1>4 DEF DownlinkStep
  <2>2. v \in Shown
    BY <1>2 DEF EngineType, Shown
  <2>3. Linked(packetSequence, antenna, archive, downlinkStats)
    BY DEF DownlinkInv
  <2>4. /\ downlinkStats \in [DOMAIN NoDownlinkStats -> Nat] /\ downlinkStats.ticks \in Nat
        /\ t \in Nat \ {0} /\ packetSequence \in Nat
    BY <2>3 DEF Linked, NoDownlinkStats
  <2>5. /\ counted \in [DOMAIN NoDownlinkStats -> Nat] /\ counted.ticks = t
        /\ counted.encoded = downlinkStats.encoded /\ counted.received = downlinkStats.received
        /\ counted.accepted = downlinkStats.accepted /\ counted.rejected = downlinkStats.rejected
    BY <2>4 DEF NoDownlinkStats
  <2> HIDE DEF counted, v
  <2>6. Linked(packetSequence, antenna, archive, counted)
    BY <2>3, <2>5 DEF Linked
  <2>7. counted.rejected = 0 => packetSequence = (t - 1) * DownlinkMetrics + 0
    <3> SUFFICES ASSUME downlinkStats.rejected = 0
                 PROVE  packetSequence = (t - 1) * DownlinkMetrics + 0
      BY <2>5
    <3>1. packetSequence = downlinkStats.ticks * DownlinkMetrics
      BY DEF DownlinkInv
    <3>2. t - 1 = downlinkStats.ticks
      BY <2>4
    <3> QED
      BY <2>4, <3>1, <3>2
  <2>8. FirstShow(archive.table, 0, v)
    BY DEF FirstShow
  <2>9. /\ s.sequence = packetSequence /\ s.antenna = antenna /\ s.archive = archive
        /\ s.thrown = FALSE /\ s.stats = counted
    OBVIOUS
  <2> HIDE DEF s, t
  <2>10. Posting(s, 0, t, v)
    <3>1. Linked(s.sequence, s.antenna, s.archive, s.stats) /\ s.stats.ticks = t
      BY <2>5, <2>6, <2>9
    <3>2. s.thrown \in BOOLEAN /\ ~s.thrown
      BY <2>9
    <3>3. s.sequence >= 0
      BY <2>4, <2>9
    <3>4. s.stats.rejected = 0 => /\ s.sequence = (t - 1) * DownlinkMetrics + 0
                                  /\ FirstShow(s.archive.table, 0, v)
      BY <2>7, <2>8, <2>9
    <3> QED
      BY <3>1, <3>2, <3>3, <3>4 DEF Posting
  <2>11. Posting(after, DownlinkMetrics, t, v)
    BY <2>2, <2>4, <2>10, AllPublished
  <2> HIDE DEF after
  <2>12. Linked(packetSequence', antenna', archive', downlinkStats')
    BY <2>1, <2>11 DEF Posting
  <2>13. /\ downlinkStats'.ticks = t
         /\ after.thrown => downlinkStats'.rejected > 0
         /\ ~after.thrown => packetSequence' >= DownlinkMetrics
         /\ downlinkStats'.rejected = 0 =>
               /\ packetSequence' = (t - 1) * DownlinkMetrics + DownlinkMetrics
               /\ FirstShow(archive'.table, DownlinkMetrics, v)
    BY <2>1, <2>11 DEF Posting
  <2>14. /\ packetSequence' \in Nat /\ downlinkStats'.rejected \in Nat
         /\ Len(archive'.held) \in Nat /\ Len(archive'.held) <= packetSequence'
         /\ downlinkStats'.rejected = 0 => Len(archive'.held) = packetSequence'
         /\ downlinkStats'.rejected > 0 => Len(archive'.held) = DownlinkArchive
    BY <2>12 DEF Linked, NoDownlinkStats, StageHolds
  <2>15. packetSequence' > 1 /\ Len(archive'.held) > 1
    <3>1. CASE downlinkStats'.rejected = 0
      BY <2>13, <2>14, <3>1, DownlinkAssumption
    <3>2. CASE downlinkStats'.rejected # 0
      BY <2>14, <3>2, DownlinkAssumption
    <3> QED
      BY <3>1, <3>2
  <2>16. (t - 1) * DownlinkMetrics + DownlinkMetrics = t * DownlinkMetrics
    BY <2>4, DownlinkAssumption
  <2> QED
    BY <1>2, <2>12, <2>13, <2>15, <2>16 DEF DownlinkInv, v
<1> QED
  BY <1>3, <1>4

LEMMA DownlinkResetKeeps == ASSUME DownlinkInv, DownlinkReset PROVE DownlinkInv'
<1>1. craft' \in EngineType
  BY FreshEngine DEF DownlinkReset
<1>2. /\ packetSequence' = 0 /\ downlinkStats' = NoDownlinkStats
      /\ antenna' = Cleared(antenna) /\ archive' = Cleared(archive)
  BY DEF DownlinkReset
<1>3. Linked(packetSequence, antenna, archive, downlinkStats)
  BY DEF DownlinkInv
<1>4. ASSUME NEW a, NEW n \in Nat, StageHolds(a, n)
      PROVE  /\ StageHolds(Cleared(a), n) /\ Cleared(a).held = <<>>
             /\ Cleared(a).last = a.last /\ Cleared(a).table = a.table
  <2> DEFINE checks == {"duplicate"}
  <2>1. a = [last |-> a.last, held |-> a.held, table |-> a.table, capacity |-> n,
             rejects |-> checks]
    BY <1>4 DEF StageHolds
  <2> HIDE DEF checks
  <2>2. Cleared(a) = [last |-> a.last, held |-> <<>>, table |-> a.table, capacity |-> n,
                      rejects |-> checks]
    BY <2>1 DEF Cleared
  <2>3. <<>> \in Seq(Downlinked) /\ Len(<<>>) = 0
    OBVIOUS
  <2> DEFINE b == Cleared(a)
  <2>4. /\ b = [last |-> b.last, held |-> b.held, table |-> b.table, capacity |-> n,
                rejects |-> checks]
        /\ b.held = <<>> /\ b.last = a.last /\ b.table = a.table
    BY <2>2
  <2> HIDE DEF b
  <2> QED
    BY <2>3, <2>4 DEF StageHolds, checks, b
<1>5. /\ StageHolds(antenna, DownlinkQueue) /\ StageHolds(archive, DownlinkArchive)
      /\ DOMAIN archive.table \subseteq ShownRows
      /\ packetSequence \in Nat /\ Len(archive.held) \in Nat
      /\ packetSequence = 0 => NotFirst(antenna) /\ NotFirst(archive)
      /\ packetSequence > 0 => /\ LastWas(antenna, packetSequence)
                               /\ LastWas(archive, Len(archive.held))
                               /\ packetSequence > 1 /\ Len(archive.held) > 1
  BY <1>3 DEF Linked, StageHolds, DownlinkInv
<1>6. NotFirst(antenna) /\ NotFirst(archive)
  BY <1>5 DEF NotFirst, LastWas
<1>7. /\ StageHolds(antenna', DownlinkQueue) /\ antenna'.held = <<>>
      /\ antenna'.last = antenna.last
      /\ StageHolds(archive', DownlinkArchive) /\ archive'.held = <<>>
      /\ archive'.last = archive.last /\ archive'.table = archive.table
  BY <1>2, <1>4, <1>5, DownlinkAssumption
<1>8. NotFirst(antenna') /\ NotFirst(archive')
  BY <1>6, <1>7 DEF NotFirst
<1>9. /\ downlinkStats' \in [DOMAIN NoDownlinkStats -> Nat]
      /\ downlinkStats'.encoded = 0 /\ downlinkStats'.received = 0
      /\ downlinkStats'.accepted = 0
      /\ downlinkStats'.rejected = 0 /\ downlinkStats'.ticks = 0
  BY <1>2 DEF NoDownlinkStats
<1>10. Len(archive'.held) = 0
  BY <1>7
<1>11. Linked(packetSequence', antenna', archive', downlinkStats')
  BY <1>2, <1>5, <1>7, <1>8, <1>9, <1>10 DEF Linked
<1>12. packetSequence' = downlinkStats'.ticks * DownlinkMetrics
  BY <1>2, <1>9, DownlinkAssumption
<1> QED
  BY <1>1, <1>2, <1>9, <1>11, <1>12 DEF DownlinkInv

LEMMA DownlinkInvariant == DownlinkSpec => []DownlinkInv
<1>1. DownlinkInv /\ [DownlinkNext]_downlinkVars => DownlinkInv'
  <2>1. ASSUME DownlinkInv, UNCHANGED downlinkVars PROVE DownlinkInv'
    BY <2>1 DEF DownlinkInv, downlinkVars
  <2> QED
    BY <2>1, DownlinkStepKeeps, DownlinkResetKeeps DEF DownlinkNext
<1> QED
  BY <1>1, DownlinkFresh, PTL DEF DownlinkSpec

\* The queue at the antenna is empty between the steps and the archive keeps to
\* its capacity, for any number of metrics.
THEOREM DownlinkTyped == DownlinkSpec => []DownlinkTypeOK
<1>1. DownlinkInv => DownlinkTypeOK
  BY DEF DownlinkInv, Linked, StageHolds, DownlinkTypeOK
<1> QED
  BY <1>1, DownlinkInvariant, PTL

\* For any number of metrics and any size of the archive: until a packet is
\* refused, all rows of the current state are of the last step of the mission.
THEOREM DownlinkShowsOneStep == DownlinkSpec => []DownlinkShowsTheStep
<1>1. DownlinkInv => DownlinkShowsTheStep
  <2> SUFFICES ASSUME DownlinkInv PROVE DownlinkShowsTheStep
    OBVIOUS
  <2>1. Linked(packetSequence, antenna, archive, downlinkStats)
    BY DEF DownlinkInv
  <2>2. ASSUME downlinkStats.rejected = 0, downlinkStats.ticks > 0
        PROVE  /\ Len(archive.held) = downlinkStats.ticks * DownlinkMetrics
               /\ \E one \in {archive.table[k].value : k \in DOMAIN archive.table} :
                     /\ \A k \in DOMAIN archive.table : archive.table[k].value = one
                     /\ one = craft.report
    <3>1. Len(archive.held) = downlinkStats.ticks * DownlinkMetrics
      BY <2>1, <2>2 DEF Linked, DownlinkInv
    <3>2. FirstShow(archive.table, DownlinkMetrics, craft.report)
      BY <2>2 DEF DownlinkInv
    <3>3. DOMAIN archive.table \subseteq ShownRows
      BY <2>1 DEF Linked
    <3>4. \A k \in DOMAIN archive.table : archive.table[k].value = craft.report
      BY <3>2, <3>3 DEF FirstShow, ShownRows
    <3>5. 1 \in 1 .. DownlinkMetrics
      BY DownlinkAssumption
    <3>6. ShownRow(1) \in DOMAIN archive.table
      BY <3>2, <3>5 DEF FirstShow
    <3>7. craft.report \in {archive.table[k].value : k \in DOMAIN archive.table}
      BY <3>4, <3>6
    <3> QED
      BY <3>1, <3>4, <3>7
  <2>3. /\ downlinkStats.encoded = downlinkStats.received
        /\ downlinkStats.accepted = Len(archive.held)
    BY <2>1 DEF Linked
  <2>4. downlinkStats.rejected > 0 => Len(archive.held) = DownlinkArchive
    BY <2>1 DEF Linked
  <2> QED
    BY <2>2, <2>3, <2>4 DEF DownlinkShowsTheStep
<1> QED
  BY <1>1, DownlinkInvariant, PTL
=============================================================================
