---------------------------- MODULE ScienceFiles ----------------------------
(***************************************************************************)
(* The way of a science product from the rover to the analysts             *)
(* (rover/science_archive, science_relay, ground_science_processing,       *)
(* science_data_products) as operators: an archive of files on the rover,  *)
(* on Vikram and on the ground, a relay that copies a product from one to  *)
(* the next, and the directory of the analyses.  The process may end and   *)
(* the file system may fail inside any save; the files stay.               *)
(***************************************************************************)
EXTENDS Integers, FiniteSets

CONSTANTS
    Sites,             \* target_id of the products
    Sequences,         \* sequence of the products
    MaxEditions        \* bound: products built

ASSUME FilesAssumption == Sequences \subseteq Nat /\ MaxEditions \in Nat

\* "TRS-<target>-<sequence>" names a product; nothing keeps two products from
\* having one name, so the model numbers them.
ProductIds == Sites \X Sequences
Absent == [edition |-> 0, usable |-> FALSE]
Product == [edition : 1 .. MaxEditions, usable : BOOLEAN]
Places == {"rover", "vikram", "ground", "analysis"}

NoFiles == [place \in Places |-> [id \in ProductIds |-> Absent]]
Has(a, place, id) == a[place][id] # Absent
With(a, place, id, file) == [a EXCEPT ![place] = [@ EXCEPT ![id] = file]]

\* usable: quality, agreement of the two spectrometers and the instruments
\* present are what process_product asks for.  The builder validates and stores
\* less: a product of poor quality is a product.
Built(built, usable) == [edition |-> built + 1, usable |-> usable]
-----------------------------------------------------------------------------
(* A save writes another file, removes the old one and renames.  It may    *)
(* fail, or the process may end, before, between or (the process) after.   *)

Saved(a, place, id, file) ==
    {[files |-> With(a, place, id, file), said |-> "saved"]}
    \union {[files |-> left, said |-> "failed"] : left \in {a, With(a, place, id, Absent)}}
    \union {[files |-> left, said |-> "ended"] :
               left \in {a, With(a, place, id, Absent), With(a, place, id, file)}}

NothingSent == [toVikram |-> FALSE, toGround |-> FALSE, duplicate |-> FALSE]
Refused(report) == [report EXCEPT !.duplicate = TRUE]
Result(files, said, report) == [files |-> files, said |-> said, report |-> report]

\* The hop to the ground, of what Vikram has.
ToGround(a, id) ==
    LET up == [NothingSent EXCEPT !.toVikram = TRUE]
    IN  IF Has(a, "ground", id) THEN {Result(a, "returned", Refused(up))}
        ELSE {Result(s.files, IF s.said = "ended" THEN "ended" ELSE "returned",
                     [up EXCEPT !.toGround = s.said = "saved"]) :
                 s \in Saved(a, "ground", id, a["vikram"][id])}

\* mutant: the relay trusts that the next hop sorts the repetitions out
TransmitsAgain(a, id) ==
    IF ~Has(a, "rover", id) THEN {Result(a, "returned", NothingSent)}
    ELSE UNION {IF s.said = "saved" THEN ToGround(s.files, id)
                ELSE {Result(s.files, IF s.said = "ended" THEN "ended" ELSE "returned", NothingSent)} :
                   s \in Saved(a, "vikram", id, a["rover"][id])}

\* transmit(): a product Vikram has is a duplicate, whatever became of it
\* further on.  The checksums compare a product with itself.
Transmitted(a, id) ==
    CASE ~Has(a, "rover", id) -> {Result(a, "returned", NothingSent)}
      [] Has(a, "rover", id) /\ Has(a, "vikram", id) ->
             {Result(a, "returned", Refused(NothingSent))}
      [] OTHER ->
             UNION {IF s.said = "saved" THEN ToGround(s.files, id)
                    ELSE {Result(s.files, IF s.said = "ended" THEN "ended" ELSE "returned",
                                 NothingSent)} : s \in Saved(a, "vikram", id, a["rover"][id])}

\* process_product and save of the analysis: only a usable product has one.
Analysed(a, id) ==
    IF a["ground"][id].usable THEN Saved(a, "analysis", id, a["ground"][id])
    ELSE {[files |-> a, said |-> "failed"]}
=============================================================================
