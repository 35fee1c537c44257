CONSTANTS
  Commands = {c1, c2}
  Workers = {w1}
  Operators = {}
  MaxAttempts = 2
  QueueCapacity = 1
  MaxCrashes = 1
  Faults = {"store"}
  NoCommand = NoCommand
SPECIFICATION Spec
SYMMETRY PipelineSymmetry
INVARIANTS
  TypeOK
  SingleRun
  OutcomeMatchesVehicle
  InFlightOwned
PROPERTIES
  EndedRunsAreFinal
  NoCommandSlipsAway
\* The path may be done: every command decided, dead letters resolved.
CHECK_DEADLOCK FALSE
