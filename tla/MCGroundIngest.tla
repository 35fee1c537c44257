--------------------------- MODULE MCGroundIngest ---------------------------
(* A small instance of GroundIngest: six records of two sources and two     *)
(* kinds, with two that share an ID, two that tie on time and sequence and  *)
(* two that come out of order, and a duplicate window of two IDs.           *)
EXTENDS GroundIngest

CONSTANTS Rover, Ops, Event, Command

MCSources == {Rover, Ops}
MCKinds   == {Event, Command}
MCIds     == 1..5

Rec(i, s, k, n, t) == [id |-> i, source |-> s, kind |-> k, seq |-> n, time |-> t]

MCRecords ==
    { Rec(1, Rover, Event,   2, 20),
      Rec(2, Rover, Event,   1, 10),     \* older and out of order
      Rec(3, Ops,   Event,   2, 20),     \* ties with record 1
      Rec(4, Ops,   Command, 1, 30),
      Rec(4, Rover, Command, 3, 40),     \* an ID used twice
      Rec(5, Rover, Command, 1, 5) }
=============================================================================
