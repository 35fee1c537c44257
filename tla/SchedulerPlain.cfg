CONSTANTS
  Schedules = {1, 2}
  Commands = {1, 2}
  CommandOf <- MCSharedCommand
  Invalid = {}
  Operators = {o1, o2}
  MaxTime = 2
  Grace = 0
  MaxNumber = 2
  MaxCrashes = 1
  Faults = {}
SPECIFICATION Spec
SYMMETRY SchedulerSymmetry
INVARIANTS
  DispatchedIsStored
  PendingSurvivesRestart
PROPERTIES
  NeverEarly
