CONSTANTS
  Commands = {c1}
  Workers = {w1}
  Operators = {o1}
  MaxAttempts = 2
  QueueCapacity = 1
  MaxCrashes = 0
  Faults = {}
  NoCommand = NoCommand
SPECIFICATION Spec
INVARIANTS
  ReplayedCommandRuns
\* The path may be done: every command decided, dead letters resolved.
CHECK_DEADLOCK FALSE
