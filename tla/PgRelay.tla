------------------------------- MODULE PgRelay -------------------------------
(***************************************************************************)
(* The engine over the Postgres source: the replication connection of      *)
(* connection.go, the capture goroutine of eventsManager.go, the two LSNs  *)
(* of handlers.go, and the walsender at the other end of the wire.         *)
(*                                                                         *)
(* A transaction of the log is a record                                    *)
(*   [first, rows, commit, end],   rows a sequence of [ev, at, len]:       *)
(* the LSN of its first record, its changes (WALStart and the length of    *)
(* the decoded message), and where its commit record starts and ends.      *)
(* Transactions are streamed whole, in the order of their commits, and may *)
(* overlap in the log.                                                     *)
(***************************************************************************)
EXTENDS Engine, Sequences, FiniteSets

CONSTANTS Wal,             \* the transactions, in commit order
          HeaderLen,       \* length of a Begin, Commit or Relation message
          NoId,            \* events whose row has no "id" column
          MaxTries,        \* attempts of startReplication (10 in the code)
          SlotMayRegress   \* the server takes a status below the slot's LSN

Txns == DOMAIN Wal

Rows(t) == Wal[t].rows

TxnOf ==
  [e \in Events |->
     CHOOSE t \in Txns : \E k \in DOMAIN Rows(t) : Rows(t)[k].ev = e]

ASSUME WalAssumption ==
  /\ Wal \in Seq([first : Nat \ {0}, commit : Nat, end : Nat,
                  rows : Seq([ev : Events, at : Nat, len : Nat])])
  /\ \A t \in Txns :
       /\ Wal[t].first < Wal[t].commit /\ Wal[t].commit < Wal[t].end
       /\ \A k \in DOMAIN Rows(t) : Rows(t)[k].at \in Wal[t].first..Wal[t].commit
       /\ \A u \in Txns : t < u => Wal[t].end <= Wal[u].commit
  /\ HeaderLen \in Nat \ {0} /\ MaxTries \in Nat \ {0}
  /\ NoId \subseteq Events /\ SlotMayRegress \in BOOLEAN
  /\ ~SnapshotBound

(* An event is a row of the log, numbered in the order of the commits.     *)
ASSUME NumberingAssumption ==
  /\ Events \subseteq Nat
  /\ \A e \in Events : \E t \in Txns : \E k \in DOMAIN Rows(t) : Rows(t)[k].ev = e
  /\ \A t, u \in Txns : \A j \in DOMAIN Rows(t), k \in DOMAIN Rows(u) :
       t < u \/ (t = u /\ j < k) => Rows(t)[j].ev < Rows(u)[k].ev

(* Not assumed, for it is not so of every log: no message is longer than   *)
(* the distance to the next commit record.                                 *)
MessagesFit ==
  \A t \in Txns :
    /\ Wal[t].first + HeaderLen <= Wal[t].commit
    /\ \A k \in DOMAIN Rows(t) : Rows(t)[k].at + Rows(t)[k].len <= Wal[t].commit
    /\ \A u \in Txns : t < u => Wal[t].end + HeaderLen <= Wal[u].commit

VARIABLES
  committed,   \* transactions 1..committed have committed
  slot,        \* confirmed_flush of the replication slot; 0: no slot yet
  born,        \* transactions committed before the slot was created
  slotBusy,    \* a walsender, dead or alive, holds the slot
  wire,        \* r.pgConn
  tries,       \* attempts made by startReplication
  next, step,  \* the walsender's position: transaction, message within it
  relSent,     \* the Relation message was sent in this session
  cap, capEv,  \* program counter of the capture goroutine; its event
  clientLSN, pendingLSN,
  assigned     \* Ack is between its assignment and its SendStatus

serverVars == <<committed, slot, born, slotBusy>>
connVars   == <<wire, tries>>
streamVars == <<next, step, relSent>>
capVars    == <<cap, capEv>>
lsnVars    == <<clientLSN, pendingLSN>>
sourceVars == <<serverVars, connVars, streamVars, capVars, lsnVars, assigned>>
vars       == <<engineVars, sourceVars>>

TypeOK ==
  /\ EngineTypeOK
  /\ committed \in 0..Len(Wal) /\ born \in 0..committed
  /\ slot \in Nat /\ clientLSN \in Nat /\ pendingLSN \in Nat
  /\ slotBusy \in BOOLEAN /\ relSent \in BOOLEAN /\ assigned \in BOOLEAN
  /\ wire \in {"down", "idle", "streaming", "cut"}
  /\ tries \in 0..MaxTries
  /\ next \in 1..(Len(Wal) + 1)
  /\ step \in 0..(IF next \in Txns THEN Len(Rows(next)) + 1 ELSE 0)
  /\ cap \in {"none", "recv", "send", "reply", "done"}
  /\ capEv \in Events \cup {NoEvent}

Init ==
  /\ EngineInit
  /\ committed = 0 /\ slot = 0 /\ born = 0 /\ slotBusy = FALSE
  /\ wire = "down" /\ tries = 0
  /\ next = 1 /\ step = 0 /\ relSent = FALSE
  /\ cap = "none" /\ capEv = NoEvent
  /\ clientLSN = 0 /\ pendingLSN = 0 /\ assigned = FALSE

Larger(a, b) == IF a > b THEN a ELSE b

(* Where the log stands before the commit record of transaction t.         *)
EndBefore(t) == IF t = 1 THEN 1 ELSE Wal[t - 1].end
CommitOf(t) == IF t \in Txns THEN Wal[t].commit ELSE EndBefore(t)

-----------------------------------------------------------------------------
(* The database server                                                     *)

AppCommit ==
  /\ committed < Len(Wal)
  /\ committed' = committed + 1
  /\ UNCHANGED <<engineVars, slot, born, slotBusy, connVars, streamVars,
                 capVars, lsnVars, assigned>>

(* The walsender of a lost or closed connection ends.                      *)
ReleaseSlot ==
  /\ slotBusy /\ wire # "streaming"
  /\ slotBusy' = FALSE
  /\ UNCHANGED <<engineVars, committed, slot, born, connVars, streamVars,
                 capVars, lsnVars, assigned>>

(* The network fails, or wal_sender_timeout expires.                       *)
WireCut ==
  /\ wire = "streaming" /\ Fault
  /\ wire' = "cut"
  /\ UNCHANGED <<phase, cancelled, runErr, dial, dialErr, open, pub, cur,
                 acking, delivered, dropped, serverVars, tries, streamVars,
                 capVars, lsnVars, assigned>>

(* WalHandlers.SendStatus, and what the server makes of it: it ignores     *)
(* position 0, and a cut wire delivers nothing.                            *)
SendStatus ==
  slot' = IF wire # "streaming" \/ clientLSN = 0 THEN slot
          ELSE IF SlotMayRegress THEN clientLSN ELSE Larger(slot, clientLSN)

-----------------------------------------------------------------------------
(* DBConnect and Close                                                     *)

(* ConnectConfig and ensureSlot: a new slot starts at the end of the log.  *)
DBConnect ==
  /\ phase = "connect" /\ wire = "down"
  /\ wire' = "idle" /\ tries' = 0
  /\ IF slot = 0
       THEN slot' = EndBefore(committed + 1) /\ born' = committed
       ELSE UNCHANGED <<slot, born>>
  /\ UNCHANGED <<engineVars, committed, slotBusy, streamVars, capVars,
                 lsnVars, assigned>>

(* The walsender resumes with the first transaction that commits at or     *)
(* after the slot's LSN.                                                   *)
ReplicationStarted ==
  /\ wire = "idle" /\ ~slotBusy
  /\ SourceConnected
  /\ wire' = "streaming" /\ slotBusy' = TRUE
  /\ next' = 1 + Cardinality({t \in Txns : t <= born \/ Wal[t].commit < slot})
  /\ step' = 0 /\ relSent' = FALSE
  /\ UNCHANGED <<committed, slot, born, tries, capVars, lsnVars, assigned>>

(* Mutant: one more attempt than the loop has.                             *)
SlotActiveOnceMore ==
  /\ phase = "connect" /\ wire = "idle" /\ slotBusy
  /\ tries' = tries + 1
  /\ IF tries' <= MaxTries
       THEN UNCHANGED <<engineVars, wire>>
       ELSE SourceConnectFailed /\ UNCHANGED faults /\ wire' = "down"
  /\ UNCHANGED <<serverVars, streamVars, capVars, lsnVars, assigned>>

(* SQLSTATE 55006: sleep and try again, MaxTries times.                    *)
SlotActive ==
  /\ phase = "connect" /\ wire = "idle" /\ slotBusy
  /\ tries' = tries + 1
  /\ IF tries' < MaxTries
       THEN UNCHANGED <<engineVars, wire>>
       ELSE SourceConnectFailed /\ UNCHANGED faults /\ wire' = "down"
  /\ UNCHANGED <<serverVars, streamVars, capVars, lsnVars, assigned>>

(* Any other error of DBConnect.  When StartReplication returns it, the    *)
(* walsender may have started all the same.                                *)
DBConnectFailed ==
  /\ SourceConnectFailed /\ Fails
  /\ wire' = "down"
  /\ \/ UNCHANGED slotBusy
     \/ wire = "idle" /\ slotBusy' = TRUE
  /\ UNCHANGED <<committed, slot, born, tries, streamVars, capVars, lsnVars,
                 assigned>>

Close ==
  /\ SourceClosed
  /\ wire' = "down"
  /\ UNCHANGED <<serverVars, tries, streamVars, capVars, lsnVars, assigned>>

(* backoff.Wait outlasts a capture goroutine that is not blocked in its    *)
(* send: it finds r.pgConn closed and returns within the delay.            *)
RetryAfterBackoff ==
  /\ Retry /\ cap \notin {"recv", "reply"}
  /\ UNCHANGED sourceVars

(* A new process: the walsender of the old one may hold the slot.          *)
ProcessDies ==
  /\ Crash
  /\ wire' = "down" /\ tries' = 0
  /\ cap' = "none" /\ capEv' = NoEvent
  /\ clientLSN' = 0 /\ pendingLSN' = 0 /\ assigned' = FALSE
  /\ UNCHANGED <<serverVars, streamVars>>

-----------------------------------------------------------------------------
(* CaptureEvents: the call, and its goroutine                              *)

(* A goroutine of an earlier run blocked in its send stays blocked, on a   *)
(* channel nobody reads; the new one takes its place here.                 *)
CaptureEvents ==
  /\ CaptureStarted
  /\ SendStatus
  /\ cap' = "recv" /\ capEv' = NoEvent
  /\ UNCHANGED <<committed, born, slotBusy, connVars, streamVars, lsnVars,
                 assigned>>

CaptureRefused ==
  /\ CaptureFailed /\ wire = "cut"
  /\ UNCHANGED <<faults, sourceVars>>

(* ReceiveMessage returns the next message of transaction `next'.          *)
Reading == cap = "recv" /\ wire = "streaming" /\ next <= committed

AtRow == Reading /\ step \in DOMAIN Rows(next)

(* Mutant: adds the length to FinalLSN, the LSN of the commit record that  *)
(* a Begin message carries, and not to WALStart.                           *)
ReceiveBeginFinal ==
  /\ Reading /\ step = 0
  /\ step' = 1
  /\ clientLSN' = Wal[next].commit + HeaderLen
  /\ cap' = "reply"
  /\ UNCHANGED <<engineVars, serverVars, connVars, next, relSent, capEv,
                 pendingLSN, assigned>>

ReceiveBegin ==
  /\ Reading /\ step = 0
  /\ step' = 1
  /\ clientLSN' = Wal[next].first + HeaderLen
  /\ cap' = "reply"
  /\ UNCHANGED <<engineVars, serverVars, connVars, next, relSent, capEv,
                 pendingLSN, assigned>>

(* A Relation message carries no WALStart.                                 *)
ReceiveRelation ==
  /\ AtRow /\ ~relSent
  /\ relSent' = TRUE
  /\ clientLSN' = HeaderLen
  /\ cap' = "reply"
  /\ UNCHANGED <<engineVars, serverVars, connVars, next, step, capEv,
                 pendingLSN, assigned>>

(* Persistor.Save failed: HandleMessage's error ends the goroutine.        *)
RelationNotSaved ==
  /\ AtRow /\ ~relSent
  /\ Fault
  /\ relSent' = TRUE
  /\ cap' = "done"
  /\ UNCHANGED <<phase, cancelled, runErr, dial, dialErr, open, pub, cur,
                 acking, delivered, dropped, serverVars, connVars, next, step,
                 capEv, lsnVars, assigned>>

(* Mutant: a row stands for its whole transaction.                         *)
ReceiveRowAsTxn ==
  /\ AtRow /\ relSent
  /\ step' = step + 1
  /\ LET row == Rows(next)[step] IN
       /\ pendingLSN' = Wal[next].end
       /\ IF row.ev \in NoId
            THEN cap' = "reply" /\ UNCHANGED capEv
            ELSE cap' = "send" /\ capEv' = row.ev
  /\ UNCHANGED <<engineVars, serverVars, connVars, next, relSent, clientLSN,
                 assigned>>

(* Insert, Update or Delete; an event without an ID is not sent on.        *)
ReceiveRow ==
  /\ AtRow /\ relSent
  /\ step' = step + 1
  /\ LET row == Rows(next)[step] IN
       /\ pendingLSN' = row.at + row.len
       /\ IF row.ev \in NoId
            THEN cap' = "reply" /\ UNCHANGED capEv
            ELSE cap' = "send" /\ capEv' = row.ev
  /\ UNCHANGED <<engineVars, serverVars, connVars, next, relSent, clientLSN,
                 assigned>>

ReceiveCommit ==
  /\ Reading /\ step = Len(Rows(next)) + 1
  /\ next' = next + 1 /\ step' = 0
  /\ clientLSN' = Wal[next].end + HeaderLen
  /\ cap' = "reply"
  /\ UNCHANGED <<engineVars, serverVars, connVars, relSent, capEv, pendingLSN,
                 assigned>>

(* What the walsender has decoded when it sends a keepalive: up to the     *)
(* commit record of `next', once it streams that transaction.              *)
ServerWALEnds ==
  IF step = 0 THEN {EndBefore(next), CommitOf(next)} ELSE {CommitOf(next)}

(* Mutant: a keepalive is answered, its ServerWALEnd ignored.              *)
ReceiveKeepaliveOnly ==
  /\ cap = "recv" /\ wire = "streaming"
  /\ cap' \in {"recv", "reply"}
  /\ UNCHANGED <<engineVars, serverVars, connVars, streamVars, capEv, lsnVars,
                 assigned>>

ReceiveKeepalive ==
  /\ cap = "recv" /\ wire = "streaming"
  /\ \E end \in ServerWALEnds : clientLSN' = Larger(clientLSN, end)
  /\ cap' \in {"recv", "reply"}
  /\ UNCHANGED <<engineVars, serverVars, connVars, streamVars, capEv,
                 pendingLSN, assigned>>

(* No message for ten seconds.                                             *)
ReceiveTimeout ==
  /\ cap = "recv" /\ wire \in {"streaming", "cut"}
  /\ SendStatus
  /\ UNCHANGED <<engineVars, committed, born, slotBusy, connVars, streamVars,
                 capVars, lsnVars, assigned>>

(* The connection is gone or ctx is done: the goroutine closes its channel.*)
ReceiveError ==
  /\ cap = "recv" /\ (wire # "streaming" \/ cancelled)
  /\ cap' = "done"
  /\ UNCHANGED <<engineVars, serverVars, connVars, streamVars, capEv, lsnVars,
                 assigned>>

(* if result.Reply                                                         *)
Reply ==
  /\ cap = "reply"
  /\ SendStatus
  /\ cap' = "recv"
  /\ UNCHANGED <<engineVars, committed, born, slotBusy, connVars, streamVars,
                 capEv, lsnVars, assigned>>

(* ch <- result.Event meets the receive of streamEvents.                   *)
HandOver ==
  /\ cap = "send"
  /\ Receive(capEv)
  /\ cap' = "reply" /\ capEv' = NoEvent
  /\ UNCHANGED <<serverVars, connVars, streamVars, lsnVars, assigned>>

StreamClosed == ChannelClosed /\ cap = "done" /\ UNCHANGED sourceVars

-----------------------------------------------------------------------------
(* Ack, on the engine's goroutine                                          *)

AckAssigns ==
  /\ phase = "acking" /\ ~assigned
  /\ clientLSN' = pendingLSN
  /\ assigned' = TRUE
  /\ UNCHANGED <<engineVars, serverVars, connVars, streamVars, capVars,
                 pendingLSN>>

AckDone ==
  /\ assigned /\ Acked
  /\ SendStatus
  /\ assigned' = FALSE
  /\ UNCHANGED <<committed, born, slotBusy, connVars, streamVars, capVars,
                 lsnVars>>

AckRefused ==
  /\ assigned /\ AckFailed /\ UNCHANGED faults
  /\ wire # "streaming"
  /\ assigned' = FALSE
  /\ UNCHANGED <<serverVars, connVars, streamVars, capVars, lsnVars>>

-----------------------------------------------------------------------------
DialReturns(p) == (DialOk(p) \/ DialFailed(p)) /\ UNCHANGED sourceVars

PublishReturns(p) == (PublishOk(p) \/ PublishFailed(p)) /\ UNCHANGED sourceVars

(* The steps of the goroutine that runs Start.                             *)
Main ==
  \/ DBConnect \/ ReplicationStarted \/ SlotActive \/ DBConnectFailed
  \/ (\E p \in Producers : CollectDial(p)) /\ UNCHANGED sourceVars
  \/ (DialCancelled \/ DialsCollected) /\ UNCHANGED sourceVars
  \/ CaptureEvents \/ CaptureRefused
  \/ HandOver \/ StreamClosed
  \/ StreamCancelled /\ UNCHANGED sourceVars
  \/ (TransformKeeps \/ TransformDrops \/ TransformFails) /\ UNCHANGED sourceVars
  \/ PublishDone /\ UNCHANGED sourceVars
  \/ AckAssigns \/ AckDone \/ AckRefused
  \/ (Unwind \/ StartBackoff \/ BackoffCancelled) /\ UNCHANGED sourceVars
  \/ Close \/ RetryAfterBackoff

(* A replication message that is not a keepalive.                          *)
ReceiveChange ==
  ReceiveBegin \/ ReceiveRelation \/ RelationNotSaved \/ ReceiveRow
    \/ ReceiveCommit

Capture ==
  ReceiveChange \/ ReceiveKeepalive \/ ReceiveTimeout \/ ReceiveError \/ Reply

Terminated == phase = "stopped" /\ UNCHANGED vars

Next ==
  \/ Main
  \/ Capture
  \/ \E p \in Producers : DialReturns(p) \/ PublishReturns(p)
  \/ AppCommit \/ ReleaseSlot \/ WireCut
  \/ Cancel /\ UNCHANGED sourceVars
  \/ ProcessDies
  \/ Terminated

Spec == Init /\ [][Next]_vars

(* Every goroutine is scheduled, calls return, and a live walsender goes   *)
(* on sending: changes are not overtaken for ever by keepalives, and a     *)
(* quiet stream has keepalives and time-outs.                              *)
FairSpec ==
  /\ Spec
  /\ WF_vars(Main)
  /\ \A p \in Producers : WF_vars(DialReturns(p)) /\ WF_vars(PublishReturns(p))
  /\ WF_vars(ReleaseSlot)
  /\ WF_vars(Reply) /\ WF_vars(ReceiveError)
  /\ SF_vars(ReceiveChange)
  /\ SF_vars(ReceiveKeepalive) /\ SF_vars(ReceiveTimeout)

-----------------------------------------------------------------------------
(* Events the relay has to deliver: committed after the slot was created.  *)
Owed ==
  {e \in Events \ NoId : slot # 0 /\ TxnOf[e] \in (born + 1)..committed}

(* The slot has passed e: the server will not send e again.                *)
Covered(e) == Wal[TxnOf[e]].commit < slot

(* Events the slot has passed although some producer lacks them.           *)
Unsafe == {e \in Owed : Covered(e) /\ ~Settled(e)}

(* README.md:28, "LSN/resume token only advances after successful          *)
(* publish": the slot never passes an event that is not settled.           *)
AtLeastOnce == Unsafe = {}

(* What holds instead: the Commit message moves ClientLSN past the one     *)
(* event still being published, so at most one event is exposed at a time  *)
(* and each failure or restart loses at most one.                          *)
LossBounded == Cardinality(Unsafe) <= faults + 1

(* eventsManager.go:97-98, "Postgres knows we've processed up to this LSN":*)
(* acknowledging an event never takes the slot past a later one that is    *)
(* not settled, though PendingLSN may already be that of the next event.   *)
AckNeverRunsAhead ==
  [][AckDone => \A e \in Owed :
       e > cur /\ ~Covered(e) /\ Covered(e)' => Settled(e)]_vars

(* Two goroutines, retries and resent transactions keep the order of the   *)
(* commits: when an event first reaches a producer, every earlier event is *)
(* settled, but for one event lost per failure.                            *)
InCommitOrder ==
  [][\A p \in Producers : \A e \in delivered'[p] \ delivered[p] :
       Cardinality({d \in Owed : d < e /\ ~Settled(d)}) <= faults]_vars

(* The relay never wedges: an event of the log is settled or, after some   *)
(* failure, passed by, however often the wire is cut or the process dies.  *)
EventuallyDealtWith ==
  \A e \in Events \ NoId :
    (e \in Owed) ~> (Settled(e) \/ cancelled \/ (faults > 0 /\ Covered(e)))

(* eventsManager.go:59-60: the log does not pile up on the server.  Though *)
(* a late Ack or a Relation message takes ClientLSN back, keepalives and   *)
(* time-outs carry the slot past every transaction.                        *)
SlotCatchesUp ==
  \A t \in Txns : (committed >= t) ~> (slot > Wal[t].commit \/ cancelled)
=============================================================================
