------------------------- MODULE MCCommandScheduler -------------------------
(* Small instances of CommandScheduler: a command of its own for each        *)
(* schedule, or one that all of them are for.                               *)
EXTENDS CommandScheduler, TLC

MCCommandOf(s) == s

MCSharedCommand(s) == 1

SchedulerSymmetry == Permutations(Operators)
=============================================================================
