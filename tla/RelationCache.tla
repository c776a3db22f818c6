---------------------------- MODULE RelationCache ----------------------------
(***************************************************************************)
(* How handlers.go turns a row of the replication stream into an event:    *)
(* the cache of Relation messages, the copies of them in the store, and    *)
(* buildEventFromTuple.  PgRelay has the LSNs of the same messages.        *)
(*                                                                         *)
(* A change of the log is [table, columns, row, toast]: the names of the   *)
(* columns the table had at that time, in order; their values, Null among  *)
(* them; and the columns an UPDATE left alone that are stored out of line, *)
(* whose values the server does not send.  A tuple has the values in the   *)
(* order of the columns and no names.                                      *)
(***************************************************************************)
EXTENDS Naturals, Sequences

CONSTANTS Log,         \* the changes of the publication's tables
          Null,        \* the SQL value
          MaxFaults    \* lost connections, failed Saves and restarts

VARIABLES
  persistor, \* Persistor # nil; never changes
  session,   \* "up", "down", or "panicked": the replication connection
  next,      \* the change the walsender sends next
  sent,      \* sent[t]: the columns of t that this session was told; <<>>: none
  relations, \* relations[t]: the cached columns of table t; <<>>: none
  stored,    \* "relation:<t>" in the store; <<>>: none
  out,       \* the last result of a row: [at, event]; at = 0: none yet
  faults

vars == <<persistor, session, next, sent, relations, stored, out, faults>>

Changes == DOMAIN Log
Tables == {Log[c].table : c \in Changes}
Schemas == {Log[c].columns : c \in Changes} \cup {<<>>}

(* Column names are unique, and a row has a value for each.                *)
ASSUME ChangesAssumption ==
  /\ Len(Log) \in Nat /\ Changes = 1..Len(Log)
  /\ \A c \in Changes :
       /\ Log[c].columns # <<>>
       /\ \A i, k \in DOMAIN Log[c].columns :
            Log[c].columns[i] = Log[c].columns[k] => i = k
       /\ DOMAIN Log[c].row = {Log[c].columns[i] : i \in DOMAIN Log[c].columns}
  /\ MaxFaults \in Nat

NoRelations == [t \in Tables |-> <<>>]

TypeOK ==
  /\ persistor \in BOOLEAN
  /\ session \in {"up", "down", "panicked"}
  /\ next \in 1..(Len(Log) + 1)
  /\ sent \in [Tables -> Schemas] /\ relations \in [Tables -> Schemas]
  /\ stored \in [Tables -> Schemas]
  /\ out.at \in 0..Len(Log) /\ faults \in 0..MaxFaults

Init ==
  /\ persistor \in BOOLEAN
  /\ session = "down" /\ next = 1
  /\ sent = NoRelations /\ relations = NoRelations /\ stored = NoRelations
  /\ out = [at |-> 0] /\ faults = 0

Fault == faults < MaxFaults /\ faults' = faults + 1

(* Mutant: the session resumes behind the last change.                     *)
ReconnectBehind ==
  /\ session = "down"
  /\ session' = "up" /\ sent' = NoRelations
  /\ next' \in 1..(next + 1)
  /\ UNCHANGED <<relations, stored, out, faults>>

(* The walsender of a new session has sent no relation, and resumes with a *)
(* change the client has not confirmed, at or before the last it got.      *)
Reconnect ==
  /\ session = "down"
  /\ session' = "up" /\ sent' = NoRelations
  /\ next' \in 1..next
  /\ UNCHANGED <<relations, stored, out, faults>>

ConnectionLost ==
  /\ session = "up" /\ Fault
  /\ session' = "down"
  /\ UNCHANGED <<next, sent, relations, stored, out>>

(* A new process calls NewWalHandlers.                                     *)
ProcessDies ==
  /\ session # "panicked" /\ Fault
  /\ session' = "down" /\ relations' = NoRelations
  /\ UNCHANGED <<next, sent, stored, out>>

-----------------------------------------------------------------------------
(* The next message is a Relation: the table is new to the session or has  *)
(* other columns than it was told.                                         *)
AtRelation ==
  session = "up" /\ next \in Changes /\ sent[Log[next].table] # Log[next].columns

AtRow ==
  session = "up" /\ next \in Changes /\ sent[Log[next].table] = Log[next].columns

(* Mutant: a relation that is known is not replaced.                       *)
CachedOnce ==
  relations' = [relations EXCEPT ![Log[next].table] =
                  IF @ = <<>> THEN Log[next].columns ELSE @]

(* Mutant: nothing is cached without a store.                              *)
CachedIfStored ==
  IF persistor THEN relations' = [relations EXCEPT ![Log[next].table] = Log[next].columns]
              ELSE UNCHANGED relations

Cached == relations' = [relations EXCEPT ![Log[next].table] = Log[next].columns]

(* Mutant: the copy is written once.                                       *)
ReceiveRelationSavedOnce ==
  /\ AtRelation
  /\ Cached
  /\ sent' = [sent EXCEPT ![Log[next].table] = Log[next].columns]
  /\ IF persistor /\ stored[Log[next].table] = <<>>
       THEN stored' = [stored EXCEPT ![Log[next].table] = Log[next].columns]
       ELSE UNCHANGED stored
  /\ UNCHANGED <<session, next, out, faults>>

ReceiveRelation ==
  /\ AtRelation
  /\ Cached
  /\ sent' = [sent EXCEPT ![Log[next].table] = Log[next].columns]
  /\ IF persistor
       THEN stored' = [stored EXCEPT ![Log[next].table] = Log[next].columns]
       ELSE UNCHANGED stored
  /\ UNCHANGED <<session, next, out, faults>>

(* Persistor.Save fails after the relation was cached; the error ends the  *)
(* capture goroutine and with it the session.                              *)
RelationNotSaved ==
  /\ AtRelation /\ persistor /\ Fault
  /\ Cached
  /\ session' = "down"
  /\ UNCHANGED <<next, sent, stored, out>>

-----------------------------------------------------------------------------
(* The relation a tuple is read with: the cached one or else the stored.   *)
Relation(t) == IF relations[t] # <<>> THEN relations[t] ELSE stored[t]

(* col.DataType is neither 'n' nor 'u'.                                    *)
HasText(c, i) ==
  /\ Log[c].row[Log[c].columns[i]] # Null
  /\ Log[c].columns[i] \notin Log[c].toast

(* rel.Columns[i] exists for every column that is read.                    *)
Covers(rel, c) == \A i \in DOMAIN Log[c].columns : HasText(c, i) => i \in DOMAIN rel

Field(rel, c, name) ==
  IF \E i \in DOMAIN Log[c].columns : HasText(c, i) /\ rel[i] = name
    THEN LET i == CHOOSE k \in DOMAIN Log[c].columns : HasText(c, k) /\ rel[k] = name
         IN  Log[c].row[Log[c].columns[i]]
    ELSE ""

Event(rel, c) == [id |-> Field(rel, c, "id"), type |-> Field(rel, c, "event_type"),
                  payload |-> Field(rel, c, "payload")]

(* buildEventFromTuple                                                     *)
ReceiveRow ==
  /\ AtRow
  /\ LET t == Log[next].table  rel == Relation(t) IN
       IF rel = <<>>
         THEN session' = "down" /\ UNCHANGED <<relations, out, next>>
         ELSE /\ relations' = [relations EXCEPT ![t] = rel]
              /\ IF Covers(rel, next)
                   THEN /\ out' = [at |-> next, event |-> Event(rel, next)]
                        /\ next' = next + 1
                        /\ UNCHANGED session
                   ELSE session' = "panicked" /\ UNCHANGED <<out, next>>
  /\ UNCHANGED <<sent, stored, faults>>

(* Everything has been read.                                               *)
Idle == session = "up" /\ next = Len(Log) + 1 /\ UNCHANGED vars

Relays == Reconnect \/ ReceiveRelation \/ ReceiveRow

Next ==
  \/ /\ Relays \/ RelationNotSaved \/ ConnectionLost \/ ProcessDies
     /\ UNCHANGED persistor
  \/ Idle

Spec == Init /\ [][Next]_vars

(* The engine's retry, and a server that sends what it has.                *)
FairSpec == Spec /\ WF_vars(Relays /\ UNCHANGED persistor)

-----------------------------------------------------------------------------
(* What the server sends of a row for a column: "" stands for nothing.     *)
Sends(c, name) ==
  IF name \in DOMAIN Log[c].row \ Log[c].toast /\ Log[c].row[name] # Null
    THEN Log[c].row[name] ELSE ""

(* The example of handlers.go:229-239, "m.NewTuple: the row AFTER update"  *)
(* and "m.OldTuple: the row that was deleted" (lines 144, 150): an event   *)
(* has the id, type and payload that were sent of its row, by the columns  *)
(* the table had at that time, whatever the relay cached before.           *)
EventsCarryRows ==
  out.at # 0 =>
    out.event = [id |-> Sends(out.at, "id"), type |-> Sends(out.at, "event_type"),
                 payload |-> Sends(out.at, "payload")]

(* README.md:30, "WAL relation messages persisted to survive fast          *)
(* reconnects": while a session is up, the store has the columns with which *)
(* the row at hand is to be read.                                          *)
StoreKeepsUp ==
  persistor /\ session = "up" =>
    \A t \in Tables : sent[t] # <<>> => stored[t] = sent[t]

(* The capture reads on to the end of the log: no row makes it fail or     *)
(* panic again and again.                                                  *)
EveryRowRead == <>[](session = "up" /\ next = Len(Log) + 1)
=============================================================================
