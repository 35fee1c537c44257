CONSTANTS
  Schedules = {1, 2}
  Commands = {1, 2}
  CommandOf <- MCCommandOf
  Invalid = {2}
  Operators = {o1}
  MaxTime = 2
  Grace = 1
  MaxNumber = 1
  MaxCrashes = 1
  Faults = {"store", "answer", "forget"}
SPECIFICATION FairSpec
INVARIANTS
  TypeOK
  HeapCoversPending
PROPERTIES
  CancelHolds
  DueIsSettled
