--------------------------- MODULE MCRelationCache ---------------------------
(***************************************************************************)
(* Instances of RelationCache for TLC: a table loses a column and gets one *)
(* in its middle, a second table has its columns in another order.         *)
(***************************************************************************)
EXTENDS RelationCache

Old == <<"id", "event_type", "payload">>
Dropped == <<"id", "payload">>
Grown == <<"id", "note", "payload", "event_type">>
Other == <<"payload", "event_type", "id">>

Change(t, columns, row, toast) ==
  [table |-> t, columns |-> columns, row |-> row, toast |-> toast]

Row(i, t, p) == [id |-> i, event_type |-> t, payload |-> p]

Long(i, t, p) == [id |-> i, note |-> "x", payload |-> p, event_type |-> t]

(* The fifth change is an UPDATE that leaves the payload alone.            *)
MCLog ==
  << Change("outbox", Old, Row("1", "created", "p"), {}),
     Change("outbox", Dropped, [id |-> "2", payload |-> "q"], {}),
     Change("audit", Other, Row("3", Null, "r"), {}),
     Change("outbox", Grown, Long("4", "created", "p"), {}),
     Change("outbox", Grown, Long("4", "paid", "p"), {"payload"}),
     Change("audit", Other, Row("5", "t", "s"), {}) >>
=============================================================================
