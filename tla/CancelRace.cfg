CONSTANTS
  Schedules = {1}
  Commands = {1}
  CommandOf <- MCCommandOf
  Invalid = {}
  Operators = {o1}
  MaxTime = 2
  Grace = 1
  MaxNumber = 3
  MaxCrashes = 0
  Faults = {}
SPECIFICATION Spec
PROPERTIES
  CancelPreventsDispatch
