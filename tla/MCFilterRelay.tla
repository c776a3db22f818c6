---------------------------- MODULE MCFilterRelay ----------------------------
(***************************************************************************)
(* Instances of FilterRelay for TLC.                                       *)
(***************************************************************************)
EXTENDS FilterRelay

CONSTANTS p1, p2

MCProducers == {p1, p2}
MCEvents == 1..MaxEvents

(* Events 1 and 3 are changes of the same row.                             *)
MCRowId == [e \in MCEvents |-> IF e = 3 THEN 1 ELSE e]
=============================================================================
