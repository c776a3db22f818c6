--------------------------- MODULE MCSnapshotRelay ---------------------------
(***************************************************************************)
(* Instances of SnapshotRelay for TLC.                                     *)
(***************************************************************************)
EXTENDS SnapshotRelay

CONSTANTS p1, p2

MCProducers == {p1, p2}
MCOneProducer == {p1}
MCRows == 1..MaxRows
MCDroppable == {2}

Setting(database, mode, store, keys) ==
  [database |-> database, mode |-> mode, store |-> store, keys |-> keys]

(* Postgres: every mode, and keys whose printed form the server rejects;   *)
(* MongoDB in mode Always, whose snapshot starts over without a store.     *)
MCSettings ==
  {Setting("postgres", "never", TRUE, "text"),
   Setting("postgres", "initial", TRUE, "text"),
   Setting("postgres", "initial", TRUE, "typed"),
   Setting("postgres", "initial", FALSE, "text"),
   Setting("mongo", "always", TRUE, "text"),
   Setting("mongo", "always", FALSE, "text")}

(* The hypothesis of the theorems about the rows.                          *)
ASSUME \A c \in MCSettings : ReadBack(c)

(* Besides, keys with which the first batch is read over and over, and     *)
(* ObjectIDs, with which no later batch finds a document.                  *)
MCAllSettings ==
  MCSettings \cup {Setting("postgres", "initial", TRUE, "blank"),
                   Setting("mongo", "always", TRUE, "typed")}

MCInitial == {Setting("postgres", "initial", TRUE, "text")}
=============================================================================
