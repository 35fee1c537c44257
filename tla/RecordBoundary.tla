--------------------------- MODULE RecordBoundary ---------------------------
(***************************************************************************)
(* What the ingestion boundary promises about each record ID, whatever     *)
(* fails and however often the process dies: it is recorded once, and what *)
(* else becomes of it is settled in that very step: it is handed to Kafka  *)
(* or never is, its caller is told of success or never is, and nobody is   *)
(* told of success whose record was not handed on.  There is no second     *)
(* chance.                                                                 *)
(***************************************************************************)
EXTENDS Integers

CONSTANT Ids

VARIABLES
    recorded,    \* the IDs in the store
    handed,      \* how often an ID was handed to Kafka
    told         \* the IDs whose caller was told "accepted"

vars == <<recorded, handed, told>>

Init ==
    /\ recorded = {} /\ told = {}
    /\ handed = [i \in Ids |-> 0]

Record(i) ==
    /\ i \notin recorded
    /\ recorded' = recorded \union {i}
    /\ \/ UNCHANGED <<handed, told>>
       \/ /\ handed' = [handed EXCEPT ![i] = @ + 1]
          /\ told' \in {told, told \union {i}}

Next == \E i \in Ids : Record(i)

Spec == Init /\ [][Next]_vars
-----------------------------------------------------------------------------
TypeOK == recorded \subseteq Ids /\ handed \in [Ids -> Nat] /\ told \subseteq Ids

\* Whoever was told of success has his record stored and handed on, once.
ToldIsRecorded ==
    \A i \in Ids :
        /\ i \in told => i \in recorded /\ handed[i] = 1
        /\ handed[i] > 0 => i \in recorded
        /\ handed[i] <= 1

\* A stored record that missed Kafka misses it for good, and no retry turns a
\* reported failure into a success.
NoSecondChance ==
    [][\A i \in recorded : handed'[i] = handed[i] /\ (i \in told' => i \in told)]_vars
=============================================================================
