CONSTANTS
  Commands = {c1}
  Workers = {w1}
  Operators = {o1, o2}
  MaxAttempts = 2
  QueueCapacity = 1
  MaxCrashes = 1
  Faults = {"answer"}
  NoCommand = NoCommand
SPECIFICATION Spec
SYMMETRY PipelineSymmetry
PROPERTIES
  ImplementsOutcome
\* The path may be done: every command decided, dead letters resolved.
CHECK_DEADLOCK FALSE
