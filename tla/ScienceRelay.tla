---------------------------- MODULE ScienceRelay ----------------------------
(***************************************************************************)
(* Products of the rover on their way through the three archives           *)
(* (ScienceFiles): acquired, transmitted and analysed in any order, as     *)
(* often as anybody asks for it.                                           *)
(***************************************************************************)
EXTENDS ScienceFiles

CONSTANT
    MaxAcquired        \* bound: products the rover acquires

ASSUME RelayAssumption == MaxAcquired \in 0 .. MaxEditions

VARIABLES
    archives,          \* the files, by place and product ID
    edition,           \* history: the products built so far
    relayed            \* the result of the last transmit() of each product

relayVars == <<archives, edition, relayed>>

RelayInit ==
    /\ archives = NoFiles
    /\ edition = 0
    /\ relayed = [id \in ProductIds |-> NothingSent]

\* The rover builds a product and saves it, over an older one of its name.
Acquire(id, usable) ==
    /\ edition < MaxAcquired
    /\ edition' = edition + 1
    /\ \E s \in Saved(archives, "rover", id, Built(edition, usable)) : archives' = s.files
    /\ UNCHANGED relayed

\* What a call that does not return would have said, nobody learns.
Transmit(id) ==
    /\ \E r \in Transmitted(archives, id) :
          /\ archives' = r.files
          /\ relayed' = [relayed EXCEPT ![id] =
                            IF r.said = "returned" THEN r.report ELSE NothingSent]
    /\ UNCHANGED edition

Analyse(id) ==
    /\ \E s \in Analysed(archives, id) : archives' = s.files
    /\ UNCHANGED <<edition, relayed>>

RelayNext ==
    \E id \in ProductIds :
        (\E usable \in BOOLEAN : Acquire(id, usable)) \/ Transmit(id) \/ Analyse(id)

RelaySpec == RelayInit /\ [][RelayNext]_relayVars
-----------------------------------------------------------------------------
RelayTypeOK ==
    /\ archives \in [Places -> [ProductIds -> Product \union {Absent}]]
    /\ edition \in 0 .. MaxAcquired
    /\ relayed \in [ProductIds -> [toVikram : BOOLEAN, toGround : BOOLEAN, duplicate : BOOLEAN]]

\* What the ground has of a product is what Vikram has, and what was analysed is
\* what the ground has and is usable, although the rover may save another
\* product under the same ID meanwhile and any save may stop half-way; and a
\* transmit that reports a hop or a duplicate is right about it
\* (science_relay.cpp: transmit refuses a product the next archive has;
\* science_archive.cpp: save; ground_science_processing.cpp: process_product).
ScienceReachesGround ==
    \A id \in ProductIds :
        /\ Has(archives, "ground", id) => archives["vikram"][id] = archives["ground"][id]
        /\ Has(archives, "analysis", id) =>
               archives["analysis"][id] = archives["ground"][id] /\ archives["ground"][id].usable
        /\ relayed[id].toVikram \/ relayed[id].duplicate => Has(archives, "vikram", id)
        /\ relayed[id].toGround => Has(archives, "ground", id)
=============================================================================
