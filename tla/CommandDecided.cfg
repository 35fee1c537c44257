CONSTANTS
  Commands = {c1, c2}
  Workers = {w1}
  Operators = {}
  MaxAttempts = 2
  QueueCapacity = 2
  MaxCrashes = 0
  Faults = {}
  NoCommand = NoCommand
SPECIFICATION FairSpec
INVARIANTS
  ReadModelSettles
PROPERTIES
  EveryCommandDecided
\* The path may be done: every command decided, dead letters resolved.
CHECK_DEADLOCK FALSE
