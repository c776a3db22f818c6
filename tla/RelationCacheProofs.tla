------------------------ MODULE RelationCacheProofs -------------------------
(***************************************************************************)
(* Theorems about RelationCache, for every log: any number of tables and   *)
(* changes, and any changes of their columns.                              *)
(***************************************************************************)
EXTENDS RelationCache, TLAPS

(* The cache has the columns the present session was told.                 *)
CacheFollows ==
  session = "up" =>
    \A t \in Tables : sent[t] # <<>> => relations[t] = sent[t]

NoPanic == session # "panicked"

-----------------------------------------------------------------------------
(* A tuple read with its own columns gives the values that were sent.      *)
LEMMA FieldIsSent ==
  ASSUME NEW c \in Changes, NEW name
  PROVE  Field(Log[c].columns, c, name) = Sends(c, name)
<1> DEFINE cols == Log[c].columns
           Here(i) == i \in DOMAIN cols /\ HasText(c, i) /\ cols[i] = name
<1>1. DOMAIN Log[c].row = {cols[i] : i \in DOMAIN cols}
  BY ChangesAssumption DEF ChangesAssumption
<1>2. ASSUME NEW i \in DOMAIN cols, Here(i)
      PROVE  Field(cols, c, name) = Sends(c, name)
  <2>1. name \in DOMAIN Log[c].row \ Log[c].toast /\ Log[c].row[name] # Null
    BY <1>1, <1>2 DEF HasText
  <2> DEFINE k == CHOOSE j \in DOMAIN cols : HasText(c, j) /\ cols[j] = name
  <2>2. k \in DOMAIN cols /\ cols[k] = name
    BY <1>2
  <2>3. Field(cols, c, name) = Log[c].row[cols[k]]
    BY <1>2 DEF Field
  <2> QED
    BY <2>1, <2>2, <2>3 DEF Sends
<1>3. ASSUME \A i \in DOMAIN cols : ~Here(i)
      PROVE  Field(cols, c, name) = Sends(c, name)
  <2>1. Field(cols, c, name) = ""
    BY <1>3 DEF Field
  <2>2. ~(name \in DOMAIN Log[c].row \ Log[c].toast /\ Log[c].row[name] # Null)
    BY <1>1, <1>3 DEF HasText
  <2> QED
    BY <2>1, <2>2 DEF Sends
<1> QED
  BY <1>2, <1>3

LEMMA Covered ==
  ASSUME NEW c \in Changes
  PROVE  Covers(Log[c].columns, c)
  BY DEF Covers

(* What the proofs below need of the log.                                  *)
LEMMA LogFacts ==
  /\ Len(Log) \in Nat /\ Changes = 1..Len(Log)
  /\ MaxFaults \in Nat
  /\ <<>> \in Schemas
  /\ \A c \in Changes : /\ Log[c].table \in Tables
                       /\ Log[c].columns \in Schemas /\ Log[c].columns # <<>>
  BY ChangesAssumption DEF ChangesAssumption, Tables, Schemas

(* A row is read with its own columns: the others cannot happen.           *)
LEMMA RowIsRead ==
  ASSUME TypeOK, CacheFollows, ReceiveRow
  PROVE  /\ next \in Changes
         /\ out' = [at |-> next, event |-> Event(Log[next].columns, next)]
         /\ next' = next + 1
         /\ UNCHANGED <<session, sent, relations, stored, faults>>
<1> DEFINE t == Log[next].table
<1>1. /\ next \in Changes /\ t \in Tables /\ session = "up"
      /\ sent[t] = Log[next].columns /\ Log[next].columns # <<>>
  BY LogFacts DEF ReceiveRow, AtRow
<1>2. relations[t] = Log[next].columns
  BY <1>1 DEF CacheFollows
<1>3. Relation(t) = Log[next].columns
  BY <1>1, <1>2 DEF Relation
<1>4. [relations EXCEPT ![t] = Log[next].columns] = relations
  BY <1>1, <1>2 DEF TypeOK
<1> QED
  BY <1>1, <1>3, <1>4, Covered DEF ReceiveRow

LEMMA TypeStep ==
  ASSUME TypeOK, CacheFollows, NoPanic, [Next]_vars
  PROVE  TypeOK' /\ NoPanic'
<1> USE LogFacts DEF TypeOK, NoPanic, Fault, NoRelations
<1>0. persistor' = persistor
  BY DEF Next, Idle, vars
<1>1. CASE Reconnect
  BY <1>0, <1>1 DEF Reconnect
<1>2. CASE ConnectionLost \/ ProcessDies
  BY <1>0, <1>2 DEF ConnectionLost, ProcessDies
<1>3. CASE ReceiveRelation
  BY <1>0, <1>3 DEF ReceiveRelation, AtRelation, Cached
<1>4. CASE RelationNotSaved
  BY <1>0, <1>4 DEF RelationNotSaved, AtRelation, Cached
<1>5. CASE ReceiveRow
  BY <1>0, <1>5, RowIsRead
<1>6. CASE Idle \/ UNCHANGED vars
  BY <1>0, <1>6 DEF Idle, vars
<1> QED
  BY <1>1, <1>2, <1>3, <1>4, <1>5, <1>6 DEF Next, Relays

(* The two copies keep up with the session.                                *)
LEMMA CopiesStep ==
  ASSUME TypeOK, CacheFollows, StoreKeepsUp, [Next]_vars
  PROVE  CacheFollows' /\ StoreKeepsUp'
<1> USE LogFacts DEF TypeOK, NoRelations, CacheFollows, StoreKeepsUp
<1>0. persistor' = persistor
  BY DEF Next, Idle, vars
<1>1. CASE Reconnect
  BY <1>0, <1>1 DEF Reconnect
<1>2. CASE ConnectionLost \/ ProcessDies
  BY <1>0, <1>2 DEF ConnectionLost, ProcessDies
<1>3. CASE ReceiveRelation
  BY <1>0, <1>3 DEF ReceiveRelation, AtRelation, Cached
<1>4. CASE RelationNotSaved
  BY <1>0, <1>4 DEF RelationNotSaved, AtRelation, Cached
<1>5. CASE ReceiveRow
  BY <1>0, <1>5, RowIsRead
<1>6. CASE Idle \/ UNCHANGED vars
  BY <1>0, <1>6 DEF Idle, vars
<1> QED
  BY <1>1, <1>2, <1>3, <1>4, <1>5, <1>6 DEF Next, Relays

LEMMA EventsStep ==
  ASSUME TypeOK, CacheFollows, EventsCarryRows, [Next]_vars
  PROVE  EventsCarryRows'
<1>1. CASE ReceiveRow
  <2>1. /\ next \in Changes
        /\ out' = [at |-> next, event |-> Event(Log[next].columns, next)]
    BY <1>1, RowIsRead
  <2>2. \A name : Field(Log[next].columns, next, name) = Sends(next, name)
    BY <2>1, FieldIsSent
  <2>3. /\ out'.at = next
        /\ out'.event = [id |-> Sends(next, "id"),
                         type |-> Sends(next, "event_type"),
                         payload |-> Sends(next, "payload")]
    BY <2>1, <2>2 DEF Event
  <2> QED
    BY <2>3 DEF EventsCarryRows
<1>2. CASE UNCHANGED out
  BY <1>2 DEF EventsCarryRows, Sends
<1> QED
  BY <1>1, <1>2 DEF Next, Relays, Reconnect, ConnectionLost, ProcessDies, ReceiveRelation,
     RelationNotSaved, Idle, vars

LEMMA CopiesInvariant ==
  Spec => [](TypeOK /\ NoPanic /\ CacheFollows /\ StoreKeepsUp)
<1>1. Init => TypeOK /\ NoPanic /\ CacheFollows /\ StoreKeepsUp
  <2> SUFFICES ASSUME Init
               PROVE  TypeOK /\ NoPanic /\ CacheFollows /\ StoreKeepsUp
    OBVIOUS
  <2>1. out.at \in 0..Len(Log) /\ next \in 1..(Len(Log) + 1) /\ faults \in 0..MaxFaults
    BY LogFacts DEF Init
  <2>2. NoRelations \in [Tables -> Schemas]
    BY LogFacts DEF NoRelations
  <2>3. /\ session = "down" /\ sent = NoRelations /\ relations = NoRelations
        /\ stored = NoRelations /\ persistor \in BOOLEAN
    BY DEF Init
  <2> QED
    BY <2>1, <2>2, <2>3 DEF TypeOK, NoPanic, CacheFollows, StoreKeepsUp
<1> QED
  BY <1>1, TypeStep, CopiesStep, PTL DEF Spec

(* Whatever columns come and go, the cache entries have known columns and  *)
(* the stream position stays within the log.                               *)
THEOREM TypeCorrect == Spec => []TypeOK
  BY CopiesInvariant, PTL

(* The store is level with the session at every row, through lost          *)
(* connections, failed Saves and restarts.                                 *)
THEOREM StoreLevel == Spec => []StoreKeepsUp
  BY CopiesInvariant, PTL

(* Every event carries what was sent of its row, whatever columns come and *)
(* go, however often the stream is rewound to older columns, and whether   *)
(* or not a store is there.                                                *)
THEOREM RowsDecoded == Spec => []EventsCarryRows
<1>1. Init => EventsCarryRows
  BY DEF Init, EventsCarryRows
<1> QED
  BY <1>1, EventsStep, CopiesInvariant, PTL DEF Spec
=============================================================================
