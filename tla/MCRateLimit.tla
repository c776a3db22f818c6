----------------------------- MODULE MCRateLimit -----------------------------
(***************************************************************************)
(* Instances of RateLimit for TLC.                                         *)
(***************************************************************************)
EXTENDS RateLimit

CONSTANT c1

MCOne == {c1}

(* The hypothesis of the theorem about TwiceTheRate.                       *)
ASSUME OneCaller
=============================================================================
