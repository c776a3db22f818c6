--------------------------- MODULE MCContractRelay ---------------------------
(***************************************************************************)
(* Instances of ContractRelay for TLC.                                     *)
(***************************************************************************)
EXTENDS ContractRelay

CONSTANTS p1, p2

MCProducers == {p1, p2}
MCEvents == 1..MaxEvents
MCDroppable == {2}
=============================================================================
