---------------------------- MODULE MCMongoRelay ----------------------------
(***************************************************************************)
(* Instances of MongoRelay for TLC.                                        *)
(***************************************************************************)
EXTENDS MongoRelay

CONSTANT p1

MCProducers == {p1}
MCEvents == 1..MaxEvents
MCDroppable == {2}
MCUndecodable == {3}
=============================================================================
