------------------------------ MODULE MCPgRelay ------------------------------
(***************************************************************************)
(* Instances of PgRelay for TLC.  Events are numbered in the order in      *)
(* which their transactions commit.                                        *)
(***************************************************************************)
EXTENDS PgRelay

CONSTANT p1

Row(e, a, l) == [ev |-> e, at |-> a, len |-> l]

Txn(f, rs, c, e) == [first |-> f, rows |-> rs, commit |-> c, end |-> e]

(* A transaction of two rows; one that begins inside it, whose first row   *)
(* has no id; and one of a single row.                                     *)
WalOverlap ==
  <<Txn(10, <<Row(1, 10, 1), Row(2, 13, 1)>>, 20, 24),
    Txn(12, <<Row(3, 12, 1), Row(4, 16, 1)>>, 30, 34),
    Txn(40, <<Row(5, 40, 1)>>, 44, 48)>>

WalShort == SubSeq(WalOverlap, 1, 2)

EventsOf(wal) ==
  UNION {{wal[t].rows[k].ev : k \in DOMAIN wal[t].rows} : t \in DOMAIN wal}

MCEvents == EventsOf(Wal)
MCProducers == {p1}
MCDroppable == {2} \cap MCEvents
MCNoId == {3}

(* The hypothesis of the theorems about what is lost and in which order.   *)
ASSUME MessagesFit
=============================================================================
