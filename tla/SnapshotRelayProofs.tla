------------------------ MODULE SnapshotRelayProofs -------------------------
(***************************************************************************)
(* Theorems about SnapshotRelay: types, what a snapshot loses at most, the *)
(* order of the rows, that streaming waits for the whole table, and the    *)
(* refinement of Pipeline.                                                 *)
(***************************************************************************)
EXTENDS SnapshotRelay, EngineProofs

(* runSnapshot is in its receive loop, or in a call of processEvent.       *)
InSession == phase \in {"snapshot", "transform", "publishing"}

(* A session other than that of the receive loop: its rows go nowhere.     *)
Others == {s \in Sessions : ~(InSession /\ s = sess)}

(* Events of the snapshot are not acknowledged, and there is a session     *)
(* behind the receive loop.                                                *)
SnapshotOnly ==
  /\ phase # "acking" /\ ~acking
  /\ InSession => sess \in Sessions /\ reader[sess].at # "none"

RowAtHand == \A s \in Sessions : reader[s].at = "send" => reader[s].pos # 0

(* A snapshot that is cut short because the context is done, until the     *)
(* process is restarted.                                                   *)
CutShort ==
  \/ phase = "panicked"
  \/ cancelled /\ phase \in {"capture", "select", "unwind", "closing", "failed",
                             "stopped"}

Paid == faults + (IF CutShort THEN 1 ELSE 0)

(* Goroutines that were left behind; each run that fails leaves one.       *)
Busy == {s \in Others : ~Free(s)}

BusyInv ==
  /\ InSession => Cardinality(Busy) + (IF Failing THEN 1 ELSE 0) <= faults
  /\ ~InSession => Cardinality(Busy) <= Paid

TypeInv == TypeOK /\ InHand /\ SnapshotOnly /\ RowAtHand /\ BusyInv

(* The last row that the forwarding goroutine took.                        *)
Taken(r) == IF r.at = "send" THEN r.pos - 1 ELSE r.pos

(* SyncSnapshot, step by step: a batch is read to its end, the cursor is   *)
(* saved behind it, and only the end of the table ends the snapshot.       *)
Sound(r) ==
  /\ r.at \in {"none", "check", "open"} => r.key = 0 /\ r.pos = 0 /\ r.fw = 0
  /\ r.at = "query" => r.pos = r.key
  /\ r.at \in {"fetch", "send", "save"} =>
       r.hi = BatchEnd(r.key) /\ r.key <= r.pos /\ r.pos <= r.hi
  /\ r.at = "send" => r.key < r.pos
  /\ r.at = "save" => r.pos = r.hi
  /\ r.at \in {"finish", "mark"} => r.pos = MaxRows
  /\ r.fw # 0 => r.fw = Taken(r)
  /\ r.at = "ended" => r.fw = 0

ReaderInv == \A s \in Sessions : Sound(reader[s])

(* A snapshot that reports no error has read the whole table, or did not   *)
(* have to.                                                                *)
Complete(r) ==
  \/ r.at \notin {"leave", "ended"} \/ r.failed \/ conf.mode = "never"
  \/ r.pos = MaxRows \/ done

EndInv == \A s \in Sessions : Complete(reader[s])

(* What is in hand is the last row that the session handed over.           *)
HandInv ==
  phase \in {"transform", "publishing"} =>
    /\ reader[sess].at \notin {"check", "open"}
    /\ cur = IF reader[sess].fw # 0 THEN reader[sess].fw - 1 ELSE Taken(reader[sess])

(* A session that the run left before it had read the cursor.              *)
Fresh == {s \in Others : reader[s].at \in {"check", "open"}}

FreshInv ==
  /\ Fresh # {} => CutShort
  /\ \A s, t \in Fresh : s = t

(* The last row that a session may yet save in the cursor when nobody      *)
(* receives its rows any more.                                             *)
Savable(r) ==
  IF r.at \in {"none", "check", "open", "leave", "ended"} THEN 0
  ELSE IF r.fw # 0 \/ Taken(r) = MaxRows THEN Taken(r)
  ELSE Taken(r) + 1

TopInv ==
  /\ Left <= top
  /\ Passed <= top + 2
  /\ \A s \in Sessions : Savable(reader[s]) <= top + 2

(* Rows that a saved position has passed, or may yet pass: all but those   *)
(* that are still on their way in the session of the present run.          *)
Window == (Left + 1)..Entered
Reached(e) ==
  e <= Left \/ e <= Passed \/ \E s \in Others : e <= Savable(reader[s])
Exposed == {e \in Events : Unsettled(e) /\ e \notin Window /\ Reached(e)}

CountInv ==
  /\ InSession => Cardinality(Exposed) + (IF Failing THEN 2 ELSE 0) <= 2 * faults
  /\ ~InSession => Cardinality(Exposed) + Cardinality(Fresh) <= 2 * Paid

-----------------------------------------------------------------------------
(* The kinds of steps.  Alone: no step of a session.                       *)
Alone ==
  /\ \/ OwnStep
     \/ SourceConnected \/ (SourceConnectFailed /\ Fails)
     \/ CaptureStarted \/ (CaptureFailed /\ Fails)
     \/ (RunFails("select") /\ Fault)
     \/ Retry
  /\ UNCHANGED snapVars

(* SyncSnapshot of session s, but for a panic.                             *)
Reading(s) ==
  \/ Check(s) \/ Open(s) \/ ReaderFails(s)
  \/ PgQuery(s) \/ PgQueryRejected(s) \/ MongoFind(s)
  \/ Fetch(s) \/ Forward(s) \/ SendCancelled(s)
  \/ Save(s) \/ Finish(s) \/ Mark(s)
  \/ CloseChannels(s) /\ reader[s].fw = 0

(* The process dies, and all its sessions with it.                         *)
Dies ==
  /\ Crash \/ Panic
  /\ sess' = 0 /\ reader' = [s \in Sessions |-> NoReader]
  /\ UNCHANGED <<cursor, done>>

GivesUp == SnapshotCancelled /\ UNCHANGED snapVars

LEMMA StepCases ==
  ASSUME [Next]_vars
  PROVE  \/ Tracked /\ (Alone \/ DialsDone \/ HandOver \/ SnapshotEnds
                        \/ GivesUp \/ Close \/ Dies)
         \/ Tracked /\ \E s \in Sessions : Reading(s)
         \/ UNCHANGED vars
<1>1. CASE Main
  BY <1>1, Zenon DEF Main, Alone, OwnStep, CaptureRefused, GivesUp
<1>2. ASSUME NEW s \in Sessions, Sync(s)
      PROVE  Tracked /\ (Reading(s) \/ Dies)
  <2>1. CASE CloseChannels(s) /\ reader[s].fw # 0
    BY <1>2, <2>1, Zenon DEF CloseChannels, Dies, Sync
  <2>2. QED
    BY <1>2, <2>1, Zenon DEF Sync, Reading
<1>3. CASE \E p \in Producers : DialReturns(p) \/ PublishReturns(p)
  BY <1>3, Zenon DEF DialReturns, PublishReturns, Alone, OwnStep
<1>4. CASE ((Cancel /\ UNCHANGED snapVars) \/ StreamBroken) /\ Tracked
  BY <1>4, Zenon DEF Alone, OwnStep, StreamBroken
<1>5. CASE ProcessDies /\ Tracked
  BY <1>5, Zenon DEF ProcessDies, Dies
<1>6. CASE Terminated \/ UNCHANGED vars
  BY <1>6, Zenon DEF Terminated
<1> QED
  BY <1>1, <1>2, <1>3, <1>4, <1>5, <1>6, Zenon DEF Next

(* What a session does goes on behind the engine's back.                   *)
LEMMA ReadingAside ==
  ASSUME NEW s \in Sessions, Reading(s)
  PROVE  UNCHANGED <<calmVars, sess>> /\ MayFail
<1>1. UNCHANGED engineVars => UNCHANGED calmVars /\ MayFail
  BY Zenon DEF engineVars, calmVars, MayFail
<1>2. Fails \/ UNCHANGED faults => MayFail
  BY FailsMayFail, Zenon DEF MayFail
<1>3. CASE Check(s) \/ Open(s) \/ ReaderFails(s) \/ Save(s) \/ Finish(s) \/ Mark(s)
  BY <1>2, <1>3, Zenon DEF Check, Open, ReaderFails, Save, Finish, Mark
<1>4. CASE \/ PgQuery(s) \/ PgQueryRejected(s) \/ MongoFind(s)
           \/ Fetch(s) \/ Forward(s) \/ SendCancelled(s)
           \/ CloseChannels(s) /\ reader[s].fw = 0
  BY <1>1, <1>4, Zenon DEF PgQuery, PgQueryRejected, MongoFind, BatchFrom, Fetch,
     Forward, SendCancelled, CloseChannels
<1> QED
  BY <1>3, <1>4, Zenon DEF Reading

Sized == MaxRows \in Nat /\ BatchSize \in Nat \ {0} /\ Events = 1..MaxRows
         /\ NoEvent \notin Events /\ SnapshotBound /\ MaxFaults \in Nat

LEMMA Sizes == Sized
  BY TableAssumption, BoundAssumption, EngineAssumption
     DEF Sized, TableAssumption, BoundAssumption, EngineAssumption

LEMMA EngineSteps ==
  ASSUME TypeOK, SnapshotOnly, [Next]_vars
  PROVE  EngineStep \/ Panic
<1>1. CASE Alone
  <2>1. CaptureFailed /\ Fails => RunEndsBadly /\ MayFail
    BY FailsMayFail, Zenon DEF CaptureFailed, RunEndsBadly
  <2>2. RunFails("select") /\ Fault => RunEndsBadly /\ MayFail
    BY Zenon DEF RunEndsBadly, MayFail
  <2>3. QED
    BY <1>1, <2>1, <2>2, OwnStepIsStep, FailsMayFail, StartedBegins, Zenon
       DEF Alone, EngineStep
<1>2. CASE HandOver
  <2>1. phase = "snapshot" /\ reader[sess].fw # 0 /\ SnapshotReceive(reader[sess].fw)
    BY <1>2, Zenon DEF HandOver
  <2>2. sess \in Sessions
    BY <2>1 DEF SnapshotOnly, InSession
  <2>3. reader[sess].fw \in Rows0
    BY <2>2 DEF TypeOK
  <2>4. reader[sess].fw \in Events
    BY <2>1, <2>3, Sizes DEF Rows0, Sized
  <2>5. QED
    BY <2>1, <2>4, Zenon DEF EngineStep
<1>3. CASE SnapshotEnds
  BY <1>3, Zenon DEF SnapshotEnds, SnapshotFailed, RunEndsBadly, MayFail, EngineStep
<1>4. CASE DialsDone \/ GivesUp \/ Close \/ Dies
  BY <1>4, Zenon DEF DialsDone, GivesUp, SnapshotCancelled, Close, Dies, EngineStep
<1>5. CASE \E s \in Sessions : Reading(s)
  BY <1>5, ReadingAside, Zenon DEF EngineStep
<1>6. CASE UNCHANGED vars
  BY <1>6, Zenon DEF vars, engineVars, calmVars, MayFail, EngineStep
<1> QED
  BY <1>1, <1>2, <1>3, <1>4, <1>5, <1>6, StepCases, Zenon

-----------------------------------------------------------------------------
(* Types.                                                                  *)
Places == {"none", "check", "open", "query", "fetch", "send", "save",
           "finish", "mark", "leave", "ended"}

Readings == [at : Places, key : Rows0, pos : Rows0, hi : Rows0, fw : Rows0,
             failed : BOOLEAN]

SnapTypes ==
  /\ sess \in Sessions \cup {0} /\ reader \in [Sessions -> Readings]
  /\ cursor \in Rows0 /\ done \in BOOLEAN

LEMMA TypeParts ==
  TypeOK <=> EngineTypeOK /\ SnapTypes /\ conf \in Settings /\ top \in Rows0
  BY Zenon DEF TypeOK, SnapTypes, Readings, Places

(* What one step does to a session.                                        *)
LEMMA ReadingMoves ==
  ASSUME SnapTypes, RowAtHand, NEW s \in Sessions, Reading(s)
  PROVE  /\ reader[s].at \notin {"none", "ended"}
         /\ reader'[s] \in Readings
         /\ reader' = [reader EXCEPT ![s] = reader'[s]]
         /\ reader'[s].at # "none"
         /\ reader'[s].at = "send" => reader'[s].pos # 0
         /\ cursor' \in Rows0 /\ done' \in BOOLEAN
<1>0. Sized /\ reader[s] \in Readings /\ 0 \in Rows0 /\ cursor \in Rows0
  BY Sizes DEF Sized, Rows0, SnapTypes
<1> USE <1>0 DEF SnapTypes, Readings, Places
<1>1. CASE Check(s)
  BY <1>1 DEF Check, LeavesWith, Goes
<1>2. CASE Open(s)
  <2>1. PICK k \in Rows0 :
          reader' = [reader EXCEPT ![s].at = "query", ![s].key = k, ![s].pos = k]
    BY <1>2, <1>0, Zenon DEF Open
  <2>2. reader[s].at = "open" /\ UNCHANGED <<cursor, done>>
    BY <1>2, Zenon DEF Open
  <2>3. QED
    BY <2>1, <2>2
<1>3. CASE ReaderFails(s) \/ PgQueryRejected(s)
  BY <1>3 DEF ReaderFails, PgQueryRejected, LeavesWith
<1>4. CASE PgQuery(s) \/ MongoFind(s)
  <2>1. BatchEnd(reader[s].key) \in Rows0
    BY DEF BatchEnd, Sized, Rows0
  <2>2. PICK end \in Rows0 : BatchFrom(s, end)
    BY <1>4, <2>1, Zenon DEF PgQuery, MongoFind
  <2>3. reader[s].at = "query" /\ UNCHANGED <<cursor, done>>
    BY <1>4, <2>2, Zenon DEF PgQuery, MongoFind, BatchFrom
  <2>4. QED
    BY <2>2, <2>3 DEF BatchFrom
<1>5. CASE Fetch(s)
  <2>1. /\ reader[s].at = "fetch" /\ UNCHANGED <<cursor, done>>
        /\ \/ /\ reader[s].pos < reader[s].hi
              /\ reader' = [reader EXCEPT ![s].at = "send", ![s].pos = reader[s].pos + 1]
           \/ \E place \in Places \ {"none", "send"} : Goes(s, place)
    BY <1>5 DEF Fetch
  <2>2. CASE reader[s].pos < reader[s].hi
             /\ reader' = [reader EXCEPT ![s].at = "send", ![s].pos = reader[s].pos + 1]
    <3>1. PICK m \in Rows0 : m = reader[s].pos + 1 /\ m # 0
      BY <2>2 DEF Sized, Rows0
    <3>2. reader' = [reader EXCEPT ![s].at = "send", ![s].pos = m]
      BY <2>2, <3>1
    <3>3. QED
      BY <2>1, <3>1, <3>2
  <2>3. CASE \E place \in Places \ {"none", "send"} : Goes(s, place)
    BY <2>1, <2>3 DEF Goes
  <2>4. QED
    BY <2>1, <2>2, <2>3
<1>6. CASE Forward(s)
  BY <1>6 DEF Forward
<1>7. CASE SendCancelled(s)
  <2>1. reader[s].at = "send" /\ UNCHANGED <<cursor, done>>
    BY <1>7, Zenon DEF SendCancelled
  <2>2. reader[s].pos - 1 \in Rows0
    BY <2>1 DEF RowAtHand, Rows0, Sized
  <2>3. QED
    BY <1>7, <2>1, <2>2 DEF SendCancelled
<1>8. CASE Save(s)
  BY <1>8 DEF Save, LastKey
<1>9. CASE Finish(s) \/ Mark(s)
  <2>1. cursor' \in Rows0 /\ done' \in BOOLEAN
    BY <1>9, <1>0, Zenon DEF Finish, Mark
  <2>2. \/ reader[s].at = "finish" /\ Goes(s, IF conf.mode = "initial" THEN "mark" ELSE "leave")
        \/ reader[s].at = "mark" /\ Goes(s, "leave")
    BY <1>9, Zenon DEF Finish, Mark
  <2>3. QED
    BY <2>1, <2>2 DEF Goes
<1>10. CASE CloseChannels(s) /\ reader[s].fw = 0
  BY <1>10 DEF CloseChannels, Goes
<1> QED
  BY <1>1, <1>2, <1>3, <1>4, <1>5, <1>6, <1>7, <1>8, <1>9, <1>10, Zenon DEF Reading

(* Where the engine's own steps take it: they open no session, and one     *)
(* that leaves a session is a failure, or follows a cancellation.          *)
Stays == UNCHANGED phase /\ UNCHANGED cur /\ (cancelled => cancelled')

Publishes == phase = "transform" /\ phase' = "publishing" /\ UNCHANGED cur

Settles ==
  /\ phase \in {"transform", "publishing"} /\ phase' = "snapshot"
  /\ UNCHANGED cur /\ Settled(cur)'

Quits ==
  /\ phase \in {"transform", "publishing"} /\ phase' = "unwind"
  /\ Failing \/ CutShort' \/ faults' = faults + 1

Between ==
  /\ \/ phase = "connect" /\ phase' \in {"dialing", "failed"}
     \/ phase = "dialing" /\ phase' = "closing"
     \/ phase = "capture" /\ phase' \in {"select", "unwind"}
     \/ phase = "select" /\ phase' = "unwind"
     \/ phase = "unwind" /\ phase' = "closing"
     \/ phase = "failed" /\ phase' = "stopped"
     \/ phase = "failed" /\ phase' = "backoff" /\ ~cancelled
     \/ phase = "backoff" /\ phase' \in {"connect", "stopped"}
  /\ cancelled => cancelled'

LEMMA AlonePhases ==
  ASSUME EngineTypeOK, InHand, SnapshotOnly, Alone
  PROVE  UNCHANGED acking /\ (Stays \/ Publishes \/ Settles \/ Quits \/ Between)
<1>1. ASSUME NEW p \in Producers,
             CollectDial(p) \/ DialOk(p) \/ DialFailed(p)
             \/ PublishOk(p) \/ PublishFailed(p)
      PROVE  UNCHANGED acking /\ Stays
  <2>1. UNCHANGED <<phase, cancelled, cur, acking>>
    BY <1>1, Zenon DEF CollectDial, DialOk, DialFailed, PublishOk, PublishFailed
  <2>2. QED
    BY <2>1, Zenon DEF Stays
<1>2. CASE Cancel
  BY <1>2, Zenon DEF Cancel, Stays
<1>3. CASE TransformKeeps
  BY <1>3, Zenon DEF TransformKeeps, Publishes
<1>4. phase \in {"transform", "publishing"} => SettledPhase = "snapshot"
  <2>1. ~acking
    BY Zenon DEF SnapshotOnly
  <2>2. QED
    BY <2>1, Zenon DEF SettledPhase, CallerPhase
<1>5. CASE TransformDrops
  <2>1. phase = "transform" /\ phase' = SettledPhase /\ UNCHANGED <<cur, acking>>
        /\ dropped' = dropped \cup {cur}
    BY <1>5, Zenon DEF TransformDrops
  <2>2. Settled(cur)'
    BY <2>1 DEF Settled
  <2>3. QED
    BY <1>4, <2>1, <2>2, Zenon DEF Settles
<1>6. CASE TransformFails
  <2>1. /\ phase = "transform" /\ phase' = "unwind" /\ UNCHANGED acking
        /\ UNCHANGED cancelled /\ Fails
    BY <1>6, Zenon DEF TransformFails, RunFails
  <2>2. CutShort' \/ faults' = faults + 1
    BY <2>1, Zenon DEF Fails, Fault, CutShort
  <2>3. QED
    BY <2>1, <2>2, Zenon DEF Quits
<1>7. CASE PublishDone
  <2>1. /\ phase = "publishing" /\ UNCHANGED <<cancelled, cur, acking, delivered, dropped>>
        /\ \/ phase' = "unwind" /\ \E p \in Producers : pub[p] = "failed"
           \/ phase' = SettledPhase /\ \A p \in Producers : pub[p] = "ok"
    BY <1>7, Zenon DEF PublishDone
  <2>2. CASE phase' = "unwind" /\ \E p \in Producers : pub[p] = "failed"
    <3>1. Failing \/ CutShort'
      BY <2>1, <2>2, Zenon DEF Failing, CutShort
    <3>2. QED
      BY <2>1, <2>2, <3>1, Zenon DEF Quits
  <2>3. CASE phase' = SettledPhase /\ \A p \in Producers : pub[p] = "ok"
    <3>1. Settled(cur)'
      BY <2>1, <2>3, Zenon DEF InHand, Settled
    <3>2. QED
      BY <1>4, <2>1, <2>3, <3>1, Zenon DEF Settles
  <2>4. QED
    BY <2>1, <2>2, <2>3, Zenon
<1>8. CASE \/ SourceConnected \/ SourceConnectFailed \/ DialCancelled
           \/ StreamCancelled \/ CaptureStarted \/ CaptureFailed \/ RunFails("select")
  <2>1. UNCHANGED <<cancelled, acking>>
    BY <1>8, Zenon DEF SourceConnected, SourceConnectFailed, DialCancelled,
       StreamCancelled, CaptureStarted, CaptureFailed, RunFails
  <2>2. \/ phase = "connect" /\ phase' \in {"dialing", "failed"}
        \/ phase = "dialing" /\ phase' = "closing"
        \/ phase = "capture" /\ phase' \in {"select", "unwind"}
        \/ phase = "select" /\ phase' = "unwind"
    BY <1>8 DEF SourceConnected, SourceConnectFailed, DialCancelled,
       StreamCancelled, CaptureStarted, CaptureFailed, RunFails
  <2>3. QED
    BY <2>1, <2>2, Zenon DEF Between
<1>9. CASE Unwind \/ StartBackoff \/ BackoffCancelled \/ Retry
  <2>1. UNCHANGED <<cancelled, acking>>
    BY <1>9, Zenon DEF Unwind, StartBackoff, BackoffCancelled, Retry
  <2>2. \/ phase = "unwind" /\ phase' = "closing"
        \/ phase = "failed" /\ phase' = "stopped"
        \/ phase = "failed" /\ phase' = "backoff" /\ ~cancelled
        \/ phase = "backoff" /\ phase' \in {"connect", "stopped"}
    BY <1>9 DEF Unwind, StartBackoff, BackoffCancelled, Retry
  <2>3. QED
    BY <2>1, <2>2, Zenon DEF Between
<1> QED
  BY <1>1, <1>2, <1>3, <1>5, <1>6, <1>7, <1>8, <1>9, Zenon DEF Alone, OwnStep

(* What is granted to a run that is cut short stays until it is paid for.  *)
LEMMA CutShortStays ==
  ASSUME CutShort
  PROVE  /\ Stays \/ Publishes \/ Settles \/ Quits \/ Between => CutShort'
         /\ SnapshotEnds \/ GivesUp \/ HandOver \/ DialsDone => CutShort'
         /\ Close => CutShort'
<1> USE DEF CutShort
<1>1. Stays \/ Publishes \/ Settles \/ Quits \/ Between => CutShort'
  BY DEF Stays, Publishes, Settles, Quits, Between
<1>2. ~SnapshotEnds /\ ~GivesUp /\ ~HandOver /\ ~DialsDone
  BY DEF SnapshotEnds, SnapshotFailed, SnapshotReturns, RunFails, GivesUp,
     SnapshotCancelled, HandOver, DialsDone, DialsCollected
<1>3. Close => CutShort'
  BY DEF Close, SourceClosed
<1> QED
  BY <1>1, <1>2, <1>3

LEMMA SessionsFinite ==
  /\ IsFiniteSet(Sessions) /\ Cardinality(Sessions) = MaxFaults + 1
  /\ Sessions \subseteq Nat \ {0}
  /\ IsFiniteSet(Others) /\ IsFiniteSet(Busy)
<1>1. MaxFaults + 1 \in Nat /\ 1 <= MaxFaults + 1 /\ Sessions \subseteq Nat \ {0}
  BY Sizes DEF Sized, Sessions
<1>2. IsFiniteSet(Sessions) /\ Cardinality(Sessions) = MaxFaults + 1
  BY <1>1, FS_Interval DEF Sessions
<1>3. Others \subseteq Sessions /\ Busy \subseteq Sessions
  BY DEF Others, Busy
<1> QED
  BY <1>1, <1>2, <1>3, Fewer

(* A run that starts a snapshot finds goroutines of its own for it.        *)
LEMMA FreeSessionExists ==
  ASSUME EngineTypeOK, BusyInv, phase = "dialing"
  PROVE  FreeSession \in Sessions /\ Free(FreeSession)
<1>1. ~InSession /\ ~CutShort
  BY DEF InSession, CutShort
<1>2. Others = Sessions
  BY <1>1 DEF Others
<1>3. faults <= MaxFaults /\ faults \in Nat /\ MaxFaults \in Nat
  BY Sizes DEF Sized, EngineTypeOK
<1>4. Cardinality(Busy) <= faults
  <2>1. Cardinality(Busy) <= Paid
    BY <1>1, Zenon DEF BusyInv
  <2>2. Paid = faults
    BY <1>1, <1>3 DEF Paid
  <2>3. QED
    BY <2>1, <2>2
<1>5. \E s \in Sessions : Free(s)
  <2>1. SUFFICES ASSUME \A s \in Sessions : ~Free(s) PROVE FALSE
    OBVIOUS
  <2>2. Busy = Sessions
    BY <1>2, <2>1 DEF Busy
  <2>3. Cardinality(Busy) = MaxFaults + 1
    BY <2>2, SessionsFinite
  <2>4. QED
    BY <1>3, <1>4, <2>3
<1> QED
  BY <1>5, Zenon DEF FreeSession

PaidOK == faults \in Nat /\ Paid \in Nat /\ faults <= Paid

LEMMA PaidStep ==
  ASSUME EngineTypeOK, EngineStep \/ Panic
  PROVE  /\ PaidOK /\ PaidOK'
         /\ faults' = faults \/ faults' = faults + 1
         /\ CutShort => Paid = faults + 1
         /\ ~CutShort => Paid = faults
         /\ CutShort' => Paid' = faults' + 1
         /\ (CutShort => CutShort') => Paid <= Paid'
<1>1. faults \in Nat /\ (faults' = faults \/ faults' = faults + 1)
  BY FaultsGrow
<1>2. PICK f : f = faults'
  OBVIOUS
<1>3. f \in Nat /\ (f = faults \/ f = faults + 1)
  BY <1>1, <1>2
<1>4. PICK c \in {0, 1} : c = IF CutShort THEN 1 ELSE 0
  OBVIOUS
<1>5. PICK d \in {0, 1} : d = IF CutShort' THEN 1 ELSE 0
  OBVIOUS
<1>6. Paid = faults + c /\ Paid' = f + d
  BY <1>2, <1>4, <1>5, Zenon DEF Paid
<1>7. faults + c \in Nat /\ f + d \in Nat /\ faults <= faults + c /\ f <= f + d
  BY <1>1, <1>3
<1>8. c <= d => faults + c <= f + d
  BY <1>1, <1>3
<1>9. (CutShort => CutShort') => c <= d
  BY <1>4, <1>5
<1>10. PaidOK /\ PaidOK'
  BY <1>1, <1>2, <1>3, <1>6, <1>7, Zenon DEF PaidOK
<1>11. (CutShort => CutShort') => Paid <= Paid'
  BY <1>6, <1>8, <1>9, Zenon
<1>12. CutShort => Paid = faults + 1
  BY DEF Paid
<1>13. ~CutShort => Paid = faults
  BY <1>1 DEF Paid
<1>14. CutShort' => Paid' = faults' + 1
  BY Zenon DEF Paid
<1> QED
  BY <1>1, <1>2, <1>3, <1>10, <1>11, <1>12, <1>13, <1>14, Zenon

(* The steps of the engine in which the snapshot has a part, in short.     *)
Enters ==
  /\ phase = "dialing" /\ phase' = "snapshot" /\ sess' = FreeSession
  /\ reader' = [reader EXCEPT ![FreeSession] = [NoReader EXCEPT !.at = "check"]]
  /\ UNCHANGED <<cursor, done>>

Hands ==
  /\ phase = "snapshot" /\ phase' = "transform"
  /\ reader[sess].fw # 0 /\ cur' = reader[sess].fw
  /\ reader' = [reader EXCEPT ![sess].fw = 0]
  /\ UNCHANGED <<sess, cursor, done>>

Ends ==
  /\ phase = "snapshot" /\ reader[sess].at = "ended"
  /\ \/ phase' = "unwind"
     \/ phase' = "capture" /\ ~reader[sess].failed
  /\ UNCHANGED snapVars

CutsShort ==
  phase = "snapshot" /\ phase' = "capture" /\ cancelled' /\ UNCHANGED snapVars

Closes ==
  /\ phase = "closing" /\ phase' \in {"failed", "stopped"}
  /\ UNCHANGED <<cancelled, reader, cursor, done>>

LEMMA Kinds ==
  /\ DialsDone =>
       /\ \/ phase = "dialing" /\ phase' = "closing" /\ UNCHANGED snapVars
          \/ Enters
       /\ UNCHANGED <<cancelled, pub, acking, delivered, dropped, faults>>
  /\ HandOver => Hands /\ acking' = FALSE /\ UNCHANGED <<pub, delivered, dropped, faults>>
  /\ SnapshotEnds =>
       Ends /\ UNCHANGED <<cancelled, pub, acking, delivered, dropped, faults>>
  /\ GivesUp => CutsShort /\ UNCHANGED <<pub, acking, delivered, dropped, faults>>
  /\ Close => Closes /\ UNCHANGED <<pub, acking, delivered, dropped, faults>>
  /\ Dies =>
       /\ \/ phase' = "connect" /\ faults' = faults + 1
          \/ phase' = "panicked" /\ faults' = faults
       /\ pub' = [p \in Producers |-> "idle"] /\ acking' = FALSE
       /\ UNCHANGED <<delivered, dropped>>
<1>1. SnapshotBound
  BY Sizes DEF Sized
<1>2. DialsDone =>
        /\ \/ phase = "dialing" /\ phase' = "closing" /\ UNCHANGED snapVars
           \/ Enters
        /\ UNCHANGED <<cancelled, pub, acking, delivered, dropped, faults>>
  <2>1. SUFFICES ASSUME DialsDone PROVE
          /\ \/ phase = "dialing" /\ phase' = "closing" /\ UNCHANGED snapVars
             \/ Enters
          /\ UNCHANGED <<cancelled, pub, acking, delivered, dropped, faults>>
    OBVIOUS
  <2>2. /\ phase = "dialing" /\ phase' \in {"closing", "snapshot"}
        /\ UNCHANGED <<cancelled, pub, acking, delivered, dropped, faults>>
    BY <1>1, <2>1, Zenon DEF DialsDone, DialsCollected
  <2>3. phase' = "closing" => UNCHANGED snapVars
    BY <2>1 DEF DialsDone
  <2>4. QED
    BY <2>1, <2>2, <2>3, Zenon DEF DialsDone, Enters
<1>3. HandOver => Hands /\ acking' = FALSE /\ UNCHANGED <<pub, delivered, dropped, faults>>
  BY Zenon DEF HandOver, SnapshotReceive, Hands
<1>4. SnapshotEnds =>
        Ends /\ UNCHANGED <<cancelled, pub, acking, delivered, dropped, faults>>
  BY Zenon DEF SnapshotEnds, SnapshotFailed, RunFails, SnapshotReturns, Ends
<1>5. GivesUp => CutsShort /\ UNCHANGED <<pub, acking, delivered, dropped, faults>>
  <2>1. GivesUp =>
          /\ phase = "snapshot" /\ phase' = "capture" /\ cancelled /\ UNCHANGED snapVars
          /\ cancelled' = cancelled
          /\ UNCHANGED <<pub, acking, delivered, dropped, faults>>
    BY Zenon DEF GivesUp, SnapshotCancelled, SnapshotReturns
  <2>2. cancelled /\ cancelled' = cancelled => cancelled'
    OBVIOUS
  <2>3. QED
    BY <2>1, <2>2, Zenon DEF CutsShort
<1>6. Close => Closes /\ UNCHANGED <<pub, acking, delivered, dropped, faults>>
  BY Zenon DEF Close, SourceClosed, Closes
<1>7. Dies =>
        /\ \/ phase' = "connect" /\ faults' = faults + 1
           \/ phase' = "panicked" /\ faults' = faults
        /\ pub' = [p \in Producers |-> "idle"] /\ acking' = FALSE
        /\ UNCHANGED <<delivered, dropped>>
  BY Zenon DEF Dies, Crash, Panic, Fault, MemoryLost
<1> QED
  BY <1>2, <1>3, <1>4, <1>5, <1>6, <1>7, Zenon

(* Sessions that are left behind pile up no faster than failures do.       *)
LEMMA BusyStep ==
  ASSUME TypeInv, [Next]_vars
  PROVE  BusyInv'
<1>0. EngineTypeOK /\ InHand /\ SnapshotOnly /\ SnapTypes /\ RowAtHand /\ BusyInv
  BY TypeParts, Zenon DEF TypeInv
<1>1. EngineStep \/ Panic
  BY <1>0, EngineSteps DEF TypeInv
<1>2. /\ PaidOK /\ PaidOK'
      /\ faults' = faults \/ faults' = faults + 1
      /\ CutShort => Paid = faults + 1
      /\ ~CutShort => Paid = faults
      /\ CutShort' => Paid' = faults' + 1
      /\ (CutShort => CutShort') => Paid <= Paid'
  BY <1>0, <1>1, PaidStep
<1>3. Failing' => Failing \/ faults' = faults + 1
  BY <1>0, <1>1, FailingStep
<1>4. Cardinality(Busy) \in Nat /\ IsFiniteSet(Busy)
  BY SessionsFinite, FS_CardinalityType
<1>5. PICK n \in Nat : n = Cardinality(Busy)
  BY <1>4
<1>6. PICK f \in Nat : f = faults'
  BY <1>2 DEF PaidOK
<1>7. PICK q \in Nat : q = Paid'
  BY <1>2 DEF PaidOK
<1>8. ASSUME Busy' \subseteq Busy,
             InSession' => InSession \/ Paid = faults,
             InSession' /\ ~InSession => ~Failing',
             InSession \/ (CutShort => CutShort')
      PROVE  BusyInv'
  <2>1. Cardinality(Busy') <= n /\ Cardinality(Busy') \in Nat
    BY <1>4, <1>5, <1>8, Fewer
  <2>2. CASE InSession' /\ InSession
    <3>1. n + (IF Failing THEN 1 ELSE 0) <= faults /\ faults \in Nat
      BY <1>0, <1>2, <1>5, <2>2 DEF BusyInv, PaidOK
    <3>2. Failing' => n + 1 <= f
      BY <1>2, <1>3, <1>6, <3>1
    <3>3. n <= f
      BY <1>2, <1>6, <3>1
    <3>4. QED
      BY <1>6, <2>1, <2>2, <3>2, <3>3 DEF BusyInv
  <2>3. CASE InSession' /\ ~InSession
    <3>1. n <= f
      BY <1>0, <1>2, <1>5, <1>6, <1>8, <2>3 DEF BusyInv, PaidOK
    <3>2. QED
      BY <1>6, <1>8, <2>1, <2>3, <3>1 DEF BusyInv
  <2>4. CASE ~InSession'
    <3>1. n <= q
      <4>1. CASE InSession
        <5>1. n <= faults /\ faults \in Nat
          BY <1>0, <1>2, <1>5, <4>1 DEF BusyInv, PaidOK
        <5>2. f <= q
          BY <1>2, <1>6, <1>7 DEF PaidOK
        <5>3. QED
          BY <1>2, <1>6, <5>1, <5>2
      <4>2. CASE ~InSession
        <5>1. n <= Paid /\ Paid \in Nat /\ Paid <= q
          BY <1>0, <1>2, <1>5, <1>7, <1>8, <4>2 DEF BusyInv, PaidOK
        <5>2. QED
          BY <5>1
      <4>3. QED
        BY <4>1, <4>2
    <3>2. QED
      BY <1>7, <2>1, <2>4, <3>1 DEF BusyInv
  <2>5. QED
    BY <2>2, <2>3, <2>4
<1>9. ASSUME Busy' \subseteq Busy \cup {sess}, InSession, ~InSession',
             Failing \/ CutShort' \/ faults' = faults + 1
      PROVE  BusyInv'
  <2>1. Cardinality(Busy') <= n + 1 /\ Cardinality(Busy') \in Nat
    BY <1>4, <1>5, <1>9, OneMore
  <2>2. /\ n <= faults /\ faults \in Nat
        /\ Failing => n + 1 <= faults
    BY <1>0, <1>2, <1>5, <1>9 DEF BusyInv, PaidOK
  <2>3. f <= q /\ (CutShort' => q = f + 1)
    BY <1>2, <1>6, <1>7 DEF PaidOK
  <2>4. faults <= f
    BY <1>2, <1>6, <2>2
  <2>5. n + 1 <= q
    <3>1. CASE Failing
      BY <2>2, <2>3, <2>4, <3>1
    <3>2. CASE CutShort'
      BY <2>2, <2>3, <2>4, <3>2
    <3>3. CASE faults' = faults + 1
      BY <1>6, <2>2, <2>3, <3>3
    <3>4. QED
      BY <1>9, <3>1, <3>2, <3>3
  <2>6. QED
    BY <1>7, <1>9, <2>1, <2>5 DEF BusyInv
<1>10. ASSUME phase' # "publishing" PROVE ~Failing'
  BY <1>0, <1>1, <1>10, InHandStep DEF InHand, Failing
<1>11. CASE Alone
  <2>1. Stays \/ Publishes \/ Settles \/ Quits \/ Between
    BY <1>0, <1>11, AlonePhases, Zenon
  <2>2. CutShort => CutShort'
    BY <2>1, CutShortStays
  <2>3. UNCHANGED <<sess, reader>>
    BY <1>11 DEF Alone, snapVars
  <2>4. CASE Quits
    <3>1. InSession /\ ~InSession'
      BY <2>4 DEF Quits, InSession
    <3>2. Busy' \subseteq Busy \cup {sess}
      BY <2>3 DEF Busy, Others, Free
    <3>3. QED
      BY <1>9, <2>4, <3>1, <3>2, Zenon DEF Quits
  <2>5. CASE Stays \/ Publishes \/ Settles \/ Between
    <3>1. InSession <=> InSession'
      BY <2>5 DEF Stays, Publishes, Settles, Between, InSession
    <3>2. Busy' \subseteq Busy
      BY <2>3, <3>1 DEF Busy, Others, Free
    <3>3. QED
      BY <1>8, <2>2, <3>1, <3>2, Zenon
  <2>6. QED
    BY <2>1, <2>4, <2>5
<1>12. CASE DialsDone
  <2>1. CASE phase = "dialing" /\ phase' = "closing" /\ UNCHANGED snapVars
    <3>1. ~InSession /\ ~InSession' /\ ~CutShort
      BY <2>1 DEF InSession, CutShort
    <3>2. Busy' \subseteq Busy
      BY <2>1, <3>1 DEF Busy, Others, Free, snapVars
    <3>3. QED
      BY <1>8, <3>1, <3>2
  <2>2. CASE Enters
    <3>1. ~InSession /\ ~CutShort /\ phase' # "publishing" /\ sess' = FreeSession
      BY <2>2 DEF Enters, InSession, CutShort
    <3>2. FreeSession \in Sessions
      BY <1>0, <2>2, FreeSessionExists DEF Enters
    <3>3. Busy' \subseteq Busy
      <4>1. \A s \in Sessions : s # FreeSession => reader'[s] = reader[s]
        BY <1>0, <2>2, <3>2 DEF Enters, SnapTypes
      <4>2. InSession'
        BY <2>2 DEF Enters, InSession
      <4>3. QED
        BY <3>1, <4>1, <4>2 DEF Busy, Others, Free
    <3>4. QED
      BY <1>2, <1>8, <1>10, <3>1, <3>3
  <2>3. QED
    BY <1>12, <2>1, <2>2, Kinds
<1>13. CASE HandOver
  <2>1. Hands
    BY <1>13, Kinds
  <2>2. InSession /\ InSession' /\ phase' # "publishing" /\ sess' = sess /\ sess \in Sessions
    BY <1>0, <2>1 DEF Hands, InSession, SnapshotOnly
  <2>3. \A s \in Sessions : s # sess => reader'[s] = reader[s]
    BY <1>0, <2>1 DEF Hands, SnapTypes
  <2>4. Busy' \subseteq Busy
    BY <2>2, <2>3 DEF Busy, Others, Free
  <2>5. QED
    BY <1>8, <2>2, <2>4
<1>14. CASE SnapshotEnds
  <2>1. Ends
    BY <1>14, Kinds
  <2>2. InSession /\ ~InSession' /\ UNCHANGED <<sess, reader>> /\ Free(sess)
    BY <2>1 DEF Ends, InSession, snapVars, Free
  <2>3. Busy' \subseteq Busy
    BY <2>2 DEF Busy, Others, Free
  <2>4. QED
    BY <1>8, <2>2, <2>3
<1>15. CASE GivesUp
  <2>1. CutsShort
    BY <1>15, Kinds
  <2>2. InSession /\ ~InSession' /\ UNCHANGED <<sess, reader>>
    BY <2>1 DEF CutsShort, InSession, snapVars
  <2>3. CutShort'
    BY <2>1, Zenon DEF CutsShort, CutShort
  <2>4. Busy' \subseteq Busy \cup {sess}
    BY <2>2 DEF Busy, Others, Free
  <2>5. QED
    BY <1>9, <2>2, <2>3, <2>4
<1>16. CASE Close
  <2>1. Closes
    BY <1>16, Kinds
  <2>2. ~InSession /\ ~InSession' /\ UNCHANGED reader
    BY <2>1 DEF Closes, InSession
  <2>3. CutShort => CutShort'
    BY <1>16, CutShortStays
  <2>4. Busy' \subseteq Busy
    BY <2>2 DEF Busy, Others, Free
  <2>5. QED
    BY <1>8, <2>2, <2>3, <2>4
<1>17. CASE Dies
  <2>1. ~InSession' /\ Busy' = {}
    <3>1. phase' \in {"connect", "panicked"} /\ reader' = [s \in Sessions |-> NoReader]
      BY <1>17, Kinds DEF Dies
    <3>2. QED
      BY <3>1 DEF InSession, Busy, Others, Free, NoReader
  <2>2. Cardinality(Busy') = 0
    BY <2>1, FS_EmptySet
  <2>3. QED
    BY <1>2, <2>1, <2>2 DEF BusyInv, PaidOK
<1>18. ASSUME NEW s \in Sessions, Reading(s)
       PROVE  BusyInv'
  <2>1. UNCHANGED <<phase, cancelled, sess, pub>>
    BY <1>18, ReadingAside DEF calmVars
  <2>2. /\ reader[s].at \notin {"none", "ended"}
        /\ \A t \in Sessions : t # s => reader'[t] = reader[t]
    BY <1>0, <1>18, ReadingMoves DEF SnapTypes
  <2>3. (InSession' <=> InSession) /\ (CutShort' <=> CutShort)
    BY <2>1, Zenon DEF InSession, CutShort
  <2>4. Busy' \subseteq Busy
    BY <2>1, <2>2, <2>3 DEF Busy, Others, Free
  <2>5. QED
    BY <1>8, <2>3, <2>4, Zenon
<1>19. CASE UNCHANGED vars
  BY <1>0, <1>19 DEF vars, engineVars, snapVars, BusyInv, Busy, Others, InSession,
     Free, Paid, CutShort, Failing
<1> QED
  BY <1>11, <1>12, <1>13, <1>14, <1>15, <1>16, <1>17, <1>18, <1>19, StepCases, Zenon

LEMMA SnapshotOnlyStep ==
  ASSUME TypeInv, [Next]_vars
  PROVE  SnapshotOnly'
<1>0. EngineTypeOK /\ InHand /\ SnapshotOnly /\ SnapTypes /\ RowAtHand /\ BusyInv
  BY TypeParts, Zenon DEF TypeInv
<1>1. /\ InSession => sess \in Sessions /\ reader[sess].at # "none"
      /\ phase # "acking"
  BY <1>0, Zenon DEF SnapshotOnly
<1>2. ~acking'
  <2>1. ~acking
    BY <1>0, Zenon DEF SnapshotOnly
  <2>2. Alone => UNCHANGED acking
    BY <1>0, AlonePhases
  <2>3. UNCHANGED vars \/ (\E s \in Sessions : Reading(s)) => UNCHANGED acking
    BY ReadingAside, Zenon DEF vars, engineVars, calmVars
  <2>4. acking' = acking \/ acking' = FALSE
    BY <2>2, <2>3, Kinds, StepCases, Zenon
  <2>5. QED
    BY <2>1, <2>4, Zenon
<1>3. ASSUME phase' # "acking",
             InSession' => sess' \in Sessions /\ reader'[sess'].at # "none"
      PROVE  SnapshotOnly'
  BY <1>2, <1>3, Zenon DEF SnapshotOnly
<1>4. CASE Alone
  <2>1. Stays \/ Publishes \/ Settles \/ Quits \/ Between
    BY <1>0, <1>4, AlonePhases
  <2>2. phase' # "acking" /\ (InSession' => InSession)
    BY <1>1, <2>1 DEF Stays, Publishes, Settles, Quits, Between, InSession
  <2>3. UNCHANGED <<sess, reader>>
    BY <1>4 DEF Alone, snapVars
  <2>4. QED
    BY <1>1, <1>3, <2>2, <2>3
<1>5. CASE DialsDone
  <2>1. CASE phase = "dialing" /\ phase' = "closing" /\ UNCHANGED snapVars
    BY <1>3, <2>1 DEF InSession
  <2>2. CASE Enters
    <3>1. FreeSession \in Sessions /\ phase' = "snapshot"
      BY <1>0, <2>2, FreeSessionExists DEF Enters
    <3>2. sess' \in Sessions /\ reader'[sess'].at # "none"
      BY <1>0, <2>2, <3>1 DEF Enters, SnapTypes, NoReader
    <3>3. QED
      BY <1>3, <3>1, <3>2
  <2>3. QED
    BY <1>5, <2>1, <2>2, Kinds
<1>6. CASE HandOver
  <2>1. Hands
    BY <1>6, Kinds
  <2>2. InSession /\ phase' # "acking" /\ sess' = sess /\ sess \in Sessions
    BY <1>1, <2>1 DEF Hands, InSession
  <2>3. reader'[sess].at = reader[sess].at
    BY <1>0, <2>1, <2>2 DEF Hands, SnapTypes, Readings
  <2>4. QED
    BY <1>1, <1>3, <2>2, <2>3
<1>7. CASE SnapshotEnds \/ GivesUp \/ Close \/ Dies
  <2>1. phase' \in {"unwind", "capture", "failed", "stopped", "connect", "panicked"}
    BY <1>7, Kinds DEF Ends, CutsShort, Closes
  <2>2. QED
    BY <1>3, <2>1 DEF InSession
<1>8. ASSUME NEW s \in Sessions, Reading(s)
      PROVE  SnapshotOnly'
  <2>1. UNCHANGED <<phase, sess>>
    BY <1>8, ReadingAside DEF calmVars
  <2>2. /\ reader'[s].at # "none"
        /\ \A t \in Sessions : t # s => reader'[t] = reader[t]
    BY <1>0, <1>8, ReadingMoves DEF SnapTypes
  <2>3. QED
    BY <1>1, <1>3, <2>1, <2>2 DEF InSession
<1>9. CASE UNCHANGED vars
  BY <1>1, <1>3, <1>9 DEF vars, engineVars, snapVars, InSession
<1> QED
  BY <1>4, <1>5, <1>6, <1>7, <1>8, <1>9, StepCases, Zenon

(* The sessions, the cursor and the done marker keep their types.          *)
LEMMA SnapTypesStep ==
  ASSUME TypeInv, [Next]_vars
  PROVE  SnapTypes' /\ RowAtHand'
<1>0. /\ EngineTypeOK /\ InHand /\ SnapshotOnly /\ SnapTypes /\ RowAtHand /\ BusyInv
      /\ 0 \in Rows0
  <2>1. 0 \in Rows0
    BY Sizes DEF Sized, Rows0
  <2>2. QED
    BY <2>1, TypeParts, Zenon DEF TypeInv
<1>1. NoReader \in Readings /\ [NoReader EXCEPT !.at = "check"] \in Readings
  BY <1>0 DEF NoReader, Readings, Places
<1>2. CASE Alone \/ SnapshotEnds \/ GivesUp \/ UNCHANGED vars
  <2>1. UNCHANGED snapVars
    BY <1>2, Kinds, Zenon DEF Alone, Ends, CutsShort, vars
  <2>2. QED
    BY <1>0, <2>1 DEF snapVars, SnapTypes, RowAtHand
<1>3. CASE DialsDone
  <2>1. CASE UNCHANGED snapVars
    BY <1>0, <2>1 DEF snapVars, SnapTypes, RowAtHand
  <2>2. CASE Enters
    <3>1. FreeSession \in Sessions
      BY <1>0, <2>2, FreeSessionExists DEF Enters
    <3>2. QED
      BY <1>0, <1>1, <2>2, <3>1 DEF Enters, SnapTypes, RowAtHand, NoReader
  <2>3. QED
    BY <1>3, <2>1, <2>2, Kinds
<1>4. CASE HandOver
  <2>1. Hands
    BY <1>4, Kinds
  <2>2. sess \in Sessions
    BY <1>0, <2>1 DEF Hands, InSession, SnapshotOnly
  <2>3. [reader[sess] EXCEPT !.fw = 0] \in Readings
    BY <1>0, <2>2 DEF SnapTypes, Readings
  <2>4. reader' = [reader EXCEPT ![sess] = [reader[sess] EXCEPT !.fw = 0]]
    BY <1>0, <2>1 DEF Hands, SnapTypes
  <2>5. SnapTypes'
    BY <1>0, <2>1, <2>2, <2>3, <2>4 DEF Hands, SnapTypes
  <2>6. RowAtHand'
    <3>1. \A s \in Sessions : reader'[s].at = reader[s].at /\ reader'[s].pos = reader[s].pos
      BY <1>0, <2>2, <2>4 DEF SnapTypes, Readings
    <3>2. QED
      BY <1>0, <3>1 DEF RowAtHand
  <2>7. QED
    BY <2>5, <2>6
<1>5. CASE Close
  BY <1>0, <1>5 DEF Close, SnapTypes, RowAtHand
<1>6. CASE Dies
  BY <1>0, <1>1, <1>6 DEF Dies, SnapTypes, RowAtHand, NoReader
<1>7. ASSUME NEW s \in Sessions, Reading(s)
      PROVE  SnapTypes' /\ RowAtHand'
  <2>1. PICK r : r = reader'[s]
    OBVIOUS
  <2>2. /\ r \in Readings /\ reader' = [reader EXCEPT ![s] = r]
        /\ r.at = "send" => r.pos # 0
        /\ cursor' \in Rows0 /\ done' \in BOOLEAN
    BY <1>0, <1>7, <2>1, ReadingMoves
  <2>3. sess' = sess
    BY <1>7, ReadingAside
  <2>4. QED
    BY <1>0, <2>2, <2>3 DEF SnapTypes, RowAtHand
<1> QED
  BY <1>2, <1>3, <1>4, <1>5, <1>6, <1>7, StepCases, Zenon

(* The largest of what Tracked compares.                                   *)
LEMMA MaxOfThree ==
  ASSUME NEW a \in Nat, NEW b \in Nat, NEW c \in Nat
  PROVE  /\ Max({a, b, c}) \in {a, b, c}
         /\ \A y \in {a, b, c} : y <= Max({a, b, c})
<1>1. \E x \in {a, b, c} : \A y \in {a, b, c} : x >= y
  <2>1. CASE a >= b /\ a >= c
    BY <2>1
  <2>2. CASE b >= a /\ b >= c
    BY <2>2
  <2>3. CASE c >= a /\ c >= b
    BY <2>3
  <2>4. QED
    BY <2>1, <2>2, <2>3
<1>2. /\ Max({a, b, c}) \in {a, b, c}
      /\ \A y \in {a, b, c} : Max({a, b, c}) >= y
  BY <1>1, Zenon DEF Max
<1>3. \A y \in {a, b, c} : y <= Max({a, b, c})
  BY <1>2
<1> QED
  BY <1>2, <1>3

BaseInv == EngineTypeOK /\ InHand /\ SnapshotOnly /\ SnapTypes /\ RowAtHand

LeftOK == Left \in Rows0 /\ Entered \in Rows0

LEMMA LeftInRange == BaseInv => LeftOK
<1> SUFFICES ASSUME BaseInv PROVE LeftOK
  OBVIOUS
<1>0. Sized /\ 0 \in Rows0
  BY Sizes DEF Sized, Rows0
<1>1. CASE ~Live
  BY <1>0, <1>1 DEF Left, Entered, LeftOK
<1>2. CASE Live
  <2>1. sess \in Sessions /\ InSession
    BY <1>2 DEF Live, InSession, BaseInv, SnapshotOnly
  <2>2. reader[sess] \in Readings /\ (reader[sess].at = "send" => reader[sess].pos # 0)
    BY <2>1 DEF BaseInv, SnapTypes, RowAtHand
  <2>3. Entered \in Rows0
    BY <1>0, <1>2, <2>2 DEF Entered, Readings, Rows0, Sized
  <2>4. phase # "snapshot" => cur \in 1..MaxRows
    BY <1>0, <2>1 DEF Sized, BaseInv, InHand, Processing, InSession
  <2>5. Left \in Rows0
    <3>1. CASE phase # "snapshot"
      <4>1. Left = cur - 1
        BY <1>2, <3>1 DEF Left
      <4>2. QED
        BY <1>0, <2>4, <3>1, <4>1 DEF Sized, Rows0
    <3>2. CASE phase = "snapshot" /\ reader[sess].fw # 0
      <4>1. Left = reader[sess].fw - 1 /\ reader[sess].fw \in Rows0
        BY <1>2, <2>2, <3>2 DEF Left, Readings
      <4>2. QED
        BY <1>0, <3>2, <4>1 DEF Sized, Rows0
    <3>3. CASE phase = "snapshot" /\ reader[sess].fw = 0
      BY <1>2, <2>3, <3>3 DEF Left
    <3>4. QED
      BY <3>1, <3>2, <3>3
  <2>6. QED
    BY <2>3, <2>5 DEF LeftOK
<1> QED
  BY <1>1, <1>2

(* A step opens one table at most.                                         *)
LEMMA ResumedOne ==
  ASSUME TypeInv, [Next]_vars
  PROVE  \/ Resumed = {}
         \/ \E s \in Sessions : /\ reader[s].at = "open" /\ Reading(s)
                                /\ reader'[s].key \in Rows0
                                /\ Resumed = {reader'[s].key}
<1>0. EngineTypeOK /\ SnapshotOnly /\ SnapTypes /\ RowAtHand /\ BusyInv
  BY TypeParts, Zenon DEF TypeInv
<1>1. ASSUME \A s \in Sessions : reader'[s].at = "query" => reader[s].at = "query"
      PROVE  Resumed = {}
  BY <1>1 DEF Resumed
<1>2. CASE UNCHANGED reader
  BY <1>1, <1>2
<1>3. CASE Alone \/ SnapshotEnds \/ GivesUp \/ Close \/ UNCHANGED vars
  <2>1. UNCHANGED reader
    BY <1>3, Kinds, Zenon DEF Alone, Ends, CutsShort, Closes, vars, snapVars
  <2>2. QED
    BY <1>2, <2>1
<1>4. CASE DialsDone
  <2>1. CASE Enters
    <3>1. FreeSession \in Sessions
      BY <1>0, <2>1, FreeSessionExists DEF Enters
    <3>2. QED
      BY <1>0, <1>1, <2>1, <3>1 DEF Enters, SnapTypes, NoReader
  <2>2. QED
    BY <1>2, <1>4, <2>1, Kinds DEF snapVars
<1>5. CASE HandOver
  <2>1. Hands /\ sess \in Sessions
    BY <1>0, <1>5, Kinds DEF Hands, InSession, SnapshotOnly
  <2>2. QED
    BY <1>0, <1>1, <2>1 DEF Hands, SnapTypes, Readings
<1>6. CASE Dies
  BY <1>1, <1>6 DEF Dies, NoReader
<1>7. ASSUME NEW s \in Sessions, Reading(s)
      PROVE  \/ Resumed = {}
             \/ reader[s].at = "open" /\ Resumed = {reader'[s].key}
                /\ reader'[s].key \in Rows0
  <2>1. reader'[s] \in Readings /\ \A t \in Sessions : t # s => reader'[t] = reader[t]
    BY <1>0, <1>7, ReadingMoves DEF SnapTypes
  <2>2. Resumed \subseteq {reader'[s].key}
    BY <2>1 DEF Resumed
  <2>3. reader[s].at # "open" => Resumed = {}
    BY <2>1 DEF Resumed
  <2>4. reader'[s].key \in Rows0
    BY <2>1 DEF Readings
  <2>5. QED
    BY <2>2, <2>3, <2>4
<1> QED
  BY <1>3, <1>4, <1>5, <1>6, <1>7, StepCases, Zenon

(* What the history of the furthest row is good for.                       *)
LEMMA TopStep ==
  ASSUME TypeInv, [Next]_vars
  PROVE  /\ BaseInv' /\ BaseInv /\ LeftOK' /\ LeftOK
         /\ UNCHANGED conf
         /\ top' \in Rows0 /\ top <= top'
         /\ Tracked => Left' <= top'
         /\ \A k \in Resumed : k <= top'
         /\ top' \in {top, Left'} \cup Resumed
<1>0. EngineTypeOK /\ InHand /\ SnapshotOnly /\ SnapTypes /\ RowAtHand /\ top \in Rows0
  BY TypeParts, Zenon DEF TypeInv
<1>1. EngineTypeOK' /\ InHand' /\ SnapshotOnly' /\ SnapTypes' /\ RowAtHand'
  <2>1. EngineStep \/ Panic
    BY <1>0, EngineSteps DEF TypeInv
  <2>2. QED
    BY <1>0, <2>1, TypeStep, InHandStep, SnapshotOnlyStep, SnapTypesStep
<1>2. BaseInv /\ BaseInv'
  BY <1>0, <1>1, Zenon DEF BaseInv
<1>3. LeftOK /\ LeftOK'
  BY <1>2, LeftInRange, PTL
<1>4. PICK l : l = Left'
  OBVIOUS
<1>5. PICK m : m = top'
  OBVIOUS
<1>6. l \in Rows0 /\ Rows0 \subseteq Nat
  BY <1>3, <1>4, Sizes DEF LeftOK, Rows0, Sized
<1>7. CASE Tracked
  <2>1. m = Max({top, l} \cup Resumed) /\ UNCHANGED conf
    BY <1>4, <1>5, <1>7, Zenon DEF Tracked
  <2>2. PICK c \in Rows0 : {top, l} \cup Resumed = {top, l, c} /\ Resumed \subseteq {c}
    <3>1. CASE Resumed = {}
      <4>1. {top, l} \cup Resumed = {top, l, l} /\ Resumed \subseteq {l}
        BY <3>1
      <4>2. QED
        BY <1>6, <4>1
    <3>2. ASSUME NEW s \in Sessions, reader'[s].key \in Rows0, Resumed = {reader'[s].key}
          PROVE  \E c \in Rows0 : {top, l} \cup Resumed = {top, l, c}
                                  /\ Resumed \subseteq {c}
      <4>1. PICK c \in Rows0 : Resumed = {c}
        BY <3>2
      <4>2. {top, l} \cup Resumed = {top, l, c}
        BY <4>1
      <4>3. QED
        BY <4>1, <4>2
    <3>3. QED
      BY <3>1, <3>2, ResumedOne
  <2>3. top \in Nat /\ l \in Nat /\ c \in Nat
    BY <1>0, <1>6
  <2>4. m \in {top, l, c} /\ \A y \in {top, l, c} : y <= m
    BY <2>1, <2>2, <2>3, MaxOfThree
  <2>5. m \in Rows0 /\ top <= m /\ l <= m /\ m \in {top, l} \cup Resumed
        /\ \A k \in Resumed : k <= m
    BY <1>0, <1>6, <2>2, <2>4
  <2>6. QED
    BY <1>2, <1>3, <1>4, <1>5, <2>1, <2>5, Zenon
<1>8. CASE UNCHANGED vars
  <2>1. UNCHANGED <<conf, top>> /\ Resumed = {} /\ ~(reader # reader')
    BY <1>8 DEF vars, snapVars, Resumed
  <2>2. top <= top
    BY <1>0, <1>6
  <2>3. Left' = Left
    BY <1>8 DEF vars, engineVars, snapVars, Left, Entered, Live
  <2>4. Tracked => Left' <= top'
    <3>1. Tracked => m = Max({top, l, l}) 
      <4>1. {top, l} \cup Resumed = {top, l, l}
        BY <2>1
      <4>2. QED
        BY <1>4, <1>5, <4>1, Zenon DEF Tracked
    <3>2. l <= Max({top, l, l})
      BY <1>0, <1>6, MaxOfThree
    <3>3. QED
      BY <1>4, <1>5, <3>1, <3>2, Zenon
  <2>5. QED
    BY <1>0, <1>2, <1>3, <2>1, <2>2, <2>4, Zenon
<1> QED
  BY <1>7, <1>8, StepCases, Zenon

LEMMA TypeInvStep ==
  ASSUME TypeInv, [Next]_vars
  PROVE  TypeInv'
<1>1. BaseInv' /\ top' \in Rows0 /\ UNCHANGED conf
  BY TopStep
<1>2. conf \in Settings
  BY TypeParts, Zenon DEF TypeInv
<1>3. TypeOK'
  <2>1. (EngineTypeOK /\ SnapTypes /\ conf \in Settings /\ top \in Rows0)'
    BY <1>1, <1>2, Zenon DEF BaseInv
  <2>2. QED
    BY <2>1, TypeParts, PTL
<1> QED
  BY <1>1, <1>3, BusyStep, Zenon DEF BaseInv, TypeInv

(* The variables keep their types, and what is left behind by runs that    *)
(* fail is never more than what the failures account for: a run that       *)
(* starts a snapshot always has a session of its own.                      *)
THEOREM TypeInvariant == Spec => []TypeInv
<1>1. Init => TypeInv
  <2>1. SUFFICES ASSUME Init PROVE TypeInv
    OBVIOUS
  <2>2. EngineTypeOK /\ InHand
    BY <2>1, EngineStarts DEF Init
  <2>3. /\ phase = "connect" /\ ~acking /\ faults = 0
        /\ reader = [s \in Sessions |-> NoReader] /\ sess = 0 /\ cursor = 0 /\ done = FALSE
        /\ top = 0 /\ conf \in Settings
    BY <2>1, Zenon DEF Init, EngineInit
  <2>4. SnapshotOnly
    BY <2>3 DEF SnapshotOnly, InSession
  <2>5. 0 \in Rows0
    BY Sizes DEF Sized, Rows0
  <2>6. SnapTypes /\ RowAtHand
    BY <2>3, <2>5 DEF SnapTypes, RowAtHand, NoReader, Readings, Places
  <2>7. BusyInv
    <3>1. Busy = {} /\ ~InSession
      BY <2>3 DEF Busy, Others, Free, NoReader, InSession
    <3>2. Cardinality(Busy) = 0 /\ Paid \in Nat
      BY <2>3, <3>1, FS_EmptySet DEF Paid
    <3>3. QED
      BY <3>1, <3>2 DEF BusyInv
  <2>8. QED
    BY <2>2, <2>3, <2>4, <2>5, <2>6, <2>7, TypeParts, Zenon DEF TypeInv
<1>2. TypeInv /\ [Next]_vars => TypeInv'
  BY TypeInvStep
<1> QED
  BY <1>1, <1>2, PTL DEF Spec

(* The variables of the snapshot engine, of the sessions and of the engine *)
(* have their types in every reachable state, for every table.             *)
THEOREM TypeCorrect == Spec => []TypeOK
<1>1. TypeInv => TypeOK
  BY Zenon DEF TypeInv
<1> QED
  BY <1>1, TypeInvariant, PTL

-----------------------------------------------------------------------------
(* What a step does to a session, as far as the rows are concerned: no row *)
(* moves, the table is opened, or the forwarding goroutine takes a row.    *)
Quiet(r, n) ==
  /\ Taken(n) = Taken(r) /\ n.fw = r.fw /\ Savable(n) <= Savable(r)
  /\ n.at \in {"check", "open"} => r.at \in {"check", "open"}

Opens(r, n) ==
  /\ r.at = "open" /\ n.at = "query" /\ r.fw = 0 /\ n.fw = 0 /\ Taken(r) = 0
  /\ n.key = Taken(n) /\ Taken(n) <= Passed

Forwards(r, n) ==
  /\ r.at = "send" /\ n.at = "fetch" /\ r.fw = 0 /\ n.fw = Taken(n)
  /\ Taken(n) = Taken(r) + 1 /\ Savable(n) <= Savable(r)

(* What a session saves, it has taken.                                     *)
Saves(r) ==
  \/ Passed' <= Passed
  \/ Passed' = Taken(r) /\ Taken(r) <= Savable(r) /\ r.at \in {"save", "mark"}

LEMMA RowFacts ==
  ASSUME NEW r \in Readings, Sound(r)
  PROVE  /\ Sized /\ r.pos \in 0..MaxRows /\ r.key \in 0..MaxRows /\ r.hi \in 0..MaxRows
         /\ r.fw \in 0..MaxRows
         /\ Taken(r) \in 0..MaxRows /\ Savable(r) \in 0..MaxRows
         /\ Savable(r) <= Taken(r) + 1
         /\ r.fw # 0 => Savable(r) <= Taken(r)
         /\ r.at \notin {"none", "check", "open", "leave", "ended"} =>
              Taken(r) <= Savable(r)
         /\ BatchEnd(r.key) \in r.key..MaxRows
         /\ BatchEnd(r.key) = r.key => r.key = MaxRows
<1>1. Sized /\ r.pos \in 0..MaxRows /\ r.key \in 0..MaxRows /\ r.hi \in 0..MaxRows
      /\ r.fw \in 0..MaxRows
  BY Sizes DEF Readings, Rows0
<1>2. Taken(r) \in 0..MaxRows
  BY <1>1 DEF Sized, Taken, Sound
<1>3. /\ Savable(r) \in 0..MaxRows /\ Savable(r) <= Taken(r) + 1
      /\ r.fw # 0 => Savable(r) <= Taken(r)
      /\ r.at \notin {"none", "check", "open", "leave", "ended"} =>
           Taken(r) <= Savable(r)
  BY <1>1, <1>2 DEF Sized, Savable
<1>4. /\ BatchEnd(r.key) \in r.key..MaxRows
      /\ BatchEnd(r.key) = r.key => r.key = MaxRows
  BY <1>1 DEF Sized, BatchEnd
<1> QED
  BY <1>1, <1>2, <1>3, <1>4

Step(s, n) ==
  /\ reader' = [reader EXCEPT ![s] = n]
  /\ n \in Readings /\ Sound(n)
  /\ Quiet(reader[s], n) \/ Opens(reader[s], n) \/ Forwards(reader[s], n)

LEMMA PassedKept ==
  /\ UNCHANGED <<cursor, done>> => Passed' = Passed
  /\ SnapTypes => Passed \in Rows0 /\ cursor <= Passed
<1>1. UNCHANGED <<cursor, done>> => Passed' = Passed
  BY DEF Passed
<1>2. ASSUME SnapTypes PROVE Passed \in Rows0 /\ cursor <= Passed
  <2>1. cursor \in Rows0 /\ MaxRows \in Rows0 /\ cursor <= cursor /\ cursor <= MaxRows
    BY <1>2, Sizes DEF SnapTypes, Rows0, Sized
  <2>2. Passed = cursor \/ Passed = MaxRows
    BY DEF Passed
  <2>3. QED
    BY <2>1, <2>2
<1> QED
  BY <1>1, <1>2

LEMMA ReadingSteps ==
  ASSUME KeysReadBack, TypeInv, ReaderInv, NEW s \in Sessions, Reading(s)
  PROVE  Step(s, reader'[s]) /\ Saves(reader[s])
<1>0. SnapTypes /\ RowAtHand /\ conf \in Settings
  BY TypeParts, Zenon DEF TypeInv
<1>1. PICK r : r = reader[s]
  OBVIOUS
<1>2. PICK n : n = reader'[s]
  OBVIOUS
<1>3. r \in Readings /\ Sound(r) /\ n \in Readings
      /\ reader' = [reader EXCEPT ![s] = n]
  BY <1>0, <1>1, <1>2, ReadingMoves DEF SnapTypes, ReaderInv
<1>4. /\ Sized /\ r.pos \in 0..MaxRows /\ r.key \in 0..MaxRows /\ r.hi \in 0..MaxRows
      /\ r.fw \in 0..MaxRows
      /\ Taken(r) \in 0..MaxRows /\ Savable(r) \in 0..MaxRows
      /\ Savable(r) <= Taken(r) + 1
      /\ r.fw # 0 => Savable(r) <= Taken(r)
      /\ r.at \notin {"none", "check", "open", "leave", "ended"} =>
           Taken(r) <= Savable(r)
      /\ BatchEnd(r.key) \in r.key..MaxRows
      /\ BatchEnd(r.key) = r.key => r.key = MaxRows
  BY <1>3, RowFacts
<1>5. Passed \in Rows0 /\ cursor \in Rows0 /\ cursor <= Passed
      /\ (UNCHANGED <<cursor, done>> => Saves(r))
  <2>1. Passed \in Rows0 /\ cursor \in Rows0 /\ cursor <= Passed
    BY <1>0, PassedKept DEF SnapTypes
  <2>2. Passed <= Passed
    BY <2>1, <1>4 DEF Rows0, Sized
  <2>3. QED
    BY <2>1, <2>2, PassedKept, Zenon DEF Saves
<1>6. /\ conf.database = "mongo" => conf.keys = "text"
      /\ conf.keys # "blank"
  BY <1>0 DEF KeysReadBack, ReadBack
<1>7. ASSUME Sound(n), Quiet(r, n) \/ Opens(r, n) \/ Forwards(r, n), Saves(r)
      PROVE  Step(s, reader'[s]) /\ Saves(reader[s])
  BY <1>1, <1>2, <1>3, <1>7, Zenon DEF Step
<1>8. ASSUME n.key = r.key, n.pos = r.pos, n.fw = r.fw, r.at # "send",
             \/ n.at = "leave"
             \/ n.at = "open" /\ r.at = "check"
             \/ n.at = "mark" /\ r.at = "finish" /\ r.pos = MaxRows
      PROVE  Sound(n) /\ Quiet(r, n)
  <2>1. Sound(n)
    BY <1>3, <1>8 DEF Sound, Taken
  <2>2. Taken(n) = Taken(r)
    BY <1>8 DEF Taken
  <2>3. n.at \in {"leave", "open"} => Savable(n) = 0
    BY DEF Savable
  <2>4. n.at = "mark" => Savable(n) = MaxRows /\ Savable(r) = MaxRows
    BY <1>8, <2>2 DEF Savable, Taken
  <2>5. QED
    BY <1>4, <1>8, <2>1, <2>2, <2>3, <2>4 DEF Quiet, Sized
<1>9. CASE Check(s)
  <2>1. r.at = "check" /\ UNCHANGED <<cursor, done>>
    BY <1>1, <1>9, Zenon DEF Check
  <2>2. Goes(s, "open") \/ LeavesWith(s, TRUE) \/ LeavesWith(s, FALSE)
    BY <1>9, Zenon DEF Check
  <2>3. n.key = r.key /\ n.pos = r.pos /\ n.fw = r.fw /\ n.at \in {"open", "leave"}
    BY <1>0, <1>1, <1>2, <2>2 DEF LeavesWith, Goes, SnapTypes, Readings
  <2>4. QED
    BY <1>5, <1>7, <1>8, <2>1, <2>3
<1>10. CASE Open(s)
  <2>1. PICK k \in {0, cursor} :
          reader' = [reader EXCEPT ![s].at = "query", ![s].key = k, ![s].pos = k]
    BY <1>10, Zenon DEF Open
  <2>2. r.at = "open" /\ UNCHANGED <<cursor, done>>
    BY <1>1, <1>10, Zenon DEF Open
  <2>3. n = [r EXCEPT !.at = "query", !.key = k, !.pos = k]
    BY <1>0, <1>1, <1>2, <2>1 DEF SnapTypes
  <2>4. k \in 0..MaxRows /\ k <= Passed
    BY <1>4, <1>5 DEF Rows0, Sized
  <2>5. n.at = "query" /\ n.key = k /\ n.pos = k /\ n.fw = r.fw
    BY <1>3, <2>3 DEF Readings
  <2>6. Sound(n) /\ Opens(r, n)
    BY <1>3, <1>4, <2>2, <2>4, <2>5 DEF Sound, Opens, Taken
  <2>7. QED
    BY <1>5, <1>7, <2>2, <2>6
<1>11. CASE ReaderFails(s) \/ PgQueryRejected(s)
  <2>1. r.at \in {"open", "query", "fetch"} /\ UNCHANGED <<cursor, done>>
        /\ LeavesWith(s, TRUE)
    BY <1>1, <1>11 DEF ReaderFails, PgQueryRejected
  <2>2. n.key = r.key /\ n.pos = r.pos /\ n.fw = r.fw /\ n.at = "leave"
    BY <1>0, <1>1, <1>2, <2>1 DEF LeavesWith, SnapTypes, Readings
  <2>3. QED
    BY <1>5, <1>7, <1>8, <2>1, <2>2
<1>12. CASE PgQuery(s) \/ MongoFind(s)
  <2>1. BatchFrom(s, BatchEnd(reader[s].key))
    BY <1>6, <1>12, Zenon DEF PgQuery, MongoFind
  <2>2. r.at = "query" /\ UNCHANGED <<cursor, done>>
    BY <1>1, <1>12, Zenon DEF PgQuery, MongoFind, BatchFrom
  <2>3. n = [r EXCEPT !.at = "fetch", !.pos = r.key, !.hi = BatchEnd(r.key)]
    BY <1>0, <1>1, <1>2, <2>1 DEF BatchFrom, SnapTypes
  <2>4. n.at = "fetch" /\ n.pos = r.key /\ n.key = r.key /\ n.hi = BatchEnd(r.key)
        /\ n.fw = r.fw
    BY <1>3, <2>3 DEF Readings
  <2>5. Sound(n) /\ Quiet(r, n)
    BY <1>3, <1>4, <2>2, <2>4 DEF Sound, Quiet, Taken, Savable, Sized
  <2>6. QED
    BY <1>5, <1>7, <2>2, <2>5
<1>13. CASE Fetch(s)
  <2>1. /\ r.at = "fetch" /\ UNCHANGED <<cursor, done>>
        /\ \/ r.pos < r.hi /\ n = [r EXCEPT !.at = "send", !.pos = r.pos + 1]
           \/ r.pos = r.hi /\ r.pos # r.key /\ n = [r EXCEPT !.at = "save"]
           \/ /\ r.pos = r.hi /\ r.pos = r.key
              /\ n = [r EXCEPT !.at = "finish"] \/ n = [r EXCEPT !.at = "leave"]
    BY <1>0, <1>1, <1>2, <1>13 DEF Fetch, Goes, SnapTypes
  <2>2. /\ n.key = r.key /\ n.hi = r.hi /\ n.fw = r.fw
        /\ \/ r.pos < r.hi /\ n.at = "send" /\ n.pos = r.pos + 1
           \/ r.pos = r.hi /\ r.pos # r.key /\ n.at = "save" /\ n.pos = r.pos
           \/ r.pos = r.hi /\ r.pos = r.key /\ n.at \in {"finish", "leave"} /\ n.pos = r.pos
    BY <1>3, <2>1 DEF Readings
  <2>3. Sound(n)
    BY <1>3, <1>4, <2>1, <2>2 DEF Sound, Taken, Sized
  <2>4. Quiet(r, n)
    BY <1>3, <1>4, <2>1, <2>2 DEF Sound, Quiet, Taken, Savable, Sized
  <2>5. QED
    BY <1>5, <1>7, <2>1, <2>3, <2>4
<1>14. CASE Forward(s)
  <2>1. /\ r.at = "send" /\ r.fw = 0 /\ UNCHANGED <<cursor, done>>
        /\ n = [r EXCEPT !.at = "fetch", !.fw = r.pos]
    BY <1>0, <1>1, <1>2, <1>14 DEF Forward, SnapTypes
  <2>2. n.at = "fetch" /\ n.fw = r.pos /\ n.key = r.key /\ n.pos = r.pos /\ n.hi = r.hi
    BY <1>3, <2>1 DEF Readings
  <2>3. Sound(n) /\ Forwards(r, n)
    BY <1>3, <1>4, <2>1, <2>2 DEF Sound, Forwards, Taken, Savable, Sized
  <2>4. QED
    BY <1>5, <1>7, <2>1, <2>3
<1>15. CASE SendCancelled(s)
  <2>1. /\ r.at = "send" /\ UNCHANGED <<cursor, done>>
        /\ n = [r EXCEPT !.at = "leave", !.failed = TRUE, !.pos = r.pos - 1]
    BY <1>0, <1>1, <1>2, <1>15 DEF SendCancelled, SnapTypes
  <2>2. n.at = "leave" /\ n.fw = r.fw /\ n.key = r.key /\ n.pos = r.pos - 1
    BY <1>3, <2>1 DEF Readings
  <2>3. Sound(n) /\ Quiet(r, n)
    BY <1>3, <1>4, <2>1, <2>2 DEF Sound, Quiet, Taken, Savable, Sized
  <2>4. QED
    BY <1>5, <1>7, <2>1, <2>3
<1>16. CASE Save(s)
  <2>1. /\ r.at = "save" /\ UNCHANGED done /\ (cursor' = r.pos \/ cursor' = cursor)
        /\ n = [r EXCEPT !.at = "query", !.key = r.pos, !.pos = r.pos]
    BY <1>0, <1>1, <1>2, <1>6, <1>16 DEF Save, LastKey, SnapTypes
  <2>2. n.at = "query" /\ n.fw = r.fw /\ n.key = r.pos /\ n.pos = r.pos
    BY <1>3, <2>1 DEF Readings
  <2>3. Sound(n) /\ Quiet(r, n)
    BY <1>3, <1>4, <2>1, <2>2 DEF Sound, Quiet, Taken, Savable, Sized
  <2>4. Passed' = Passed \/ Passed' = r.pos
    BY <2>1, Zenon DEF Passed
  <2>5. Saves(r)
    BY <1>4, <1>5, <2>1, <2>4 DEF Saves, Taken, Rows0, Sized
  <2>6. QED
    BY <1>7, <2>3, <2>5
<1>17. CASE Finish(s) \/ Mark(s)
  <2>1. r.pos = MaxRows /\ r.at \in {"finish", "mark"}
    BY <1>1, <1>3, <1>17 DEF Finish, Mark, Sound
  <2>2. /\ n.key = r.key /\ n.pos = r.pos /\ n.fw = r.fw
        /\ n.at = "leave" \/ (n.at = "mark" /\ r.at = "finish")
    BY <1>0, <1>1, <1>2, <1>17 DEF Finish, Mark, Goes, SnapTypes, Readings
  <2>3. \/ cursor' = 0 /\ done' = done
        \/ cursor' = cursor /\ done' = done
        \/ cursor' = cursor /\ done' = TRUE /\ r.at = "mark"
    BY <1>1, <1>17, Zenon DEF Finish, Mark
  <2>4. \/ Passed' = Passed
        \/ Passed' = 0
        \/ Passed' = MaxRows /\ r.at = "mark"
    <3>1. CASE cursor' = 0 /\ done' = done
      <4>1. Passed' = IF done THEN MaxRows ELSE 0
        BY <3>1, Zenon DEF Passed
      <4>2. QED
        BY <4>1, Zenon DEF Passed
    <3>2. CASE UNCHANGED <<cursor, done>>
      BY <3>2, PassedKept
    <3>3. CASE done' = TRUE /\ r.at = "mark"
      BY <3>3, Zenon DEF Passed
    <3>4. QED
      BY <2>3, <3>1, <3>2, <3>3, Zenon
  <2>5. Saves(r)
    BY <1>4, <1>5, <2>1, <2>4 DEF Saves, Taken, Rows0, Sized
  <2>6. QED
    BY <1>7, <1>8, <2>1, <2>2, <2>5
<1>18. CASE CloseChannels(s) /\ reader[s].fw = 0
  <2>1. r.at = "leave" /\ r.fw = 0 /\ UNCHANGED <<cursor, done>>
        /\ n = [r EXCEPT !.at = "ended"]
    BY <1>0, <1>1, <1>2, <1>18 DEF CloseChannels, Goes, SnapTypes
  <2>2. n.at = "ended" /\ n.fw = 0 /\ n.pos = r.pos
    BY <1>3, <2>1 DEF Readings
  <2>3. Sound(n) /\ Quiet(r, n)
    BY <1>3, <1>4, <2>1, <2>2 DEF Sound, Quiet, Taken, Savable, Sized
  <2>4. QED
    BY <1>5, <1>7, <2>1, <2>3
<1> HIDE DEF Step, Saves
<1> QED
  BY <1>9, <1>10, <1>11, <1>12, <1>13, <1>14, <1>15, <1>16, <1>17, <1>18, Zenon
     DEF Reading

(* The sessions stay sound, and so does what is in hand.                   *)
LEMMA ReaderInvStep ==
  ASSUME KeysReadBack, TypeInv, ReaderInv, [Next]_vars
  PROVE  ReaderInv'
<1>0. EngineTypeOK /\ SnapshotOnly /\ SnapTypes /\ BusyInv
  BY TypeParts, Zenon DEF TypeInv
<1>1. Sound(NoReader) /\ Sound([NoReader EXCEPT !.at = "check"])
  BY DEF Sound, NoReader
<1>2. CASE UNCHANGED reader
  BY <1>2 DEF ReaderInv
<1>3. CASE Alone \/ SnapshotEnds \/ GivesUp \/ Close \/ UNCHANGED vars
  <2>1. UNCHANGED reader
    BY <1>3, Kinds, Zenon DEF Alone, Ends, CutsShort, Closes, vars, snapVars
  <2>2. QED
    BY <1>2, <2>1
<1>4. CASE DialsDone
  <2>1. CASE Enters
    <3>1. FreeSession \in Sessions
      BY <1>0, <2>1, FreeSessionExists DEF Enters
    <3>2. QED
      BY <1>0, <1>1, <2>1, <3>1 DEF Enters, SnapTypes, ReaderInv
  <2>2. QED
    BY <1>2, <1>4, <2>1, Kinds DEF snapVars
<1>5. CASE HandOver
  <2>1. Hands /\ sess \in Sessions
    BY <1>0, <1>5, Kinds DEF Hands, InSession, SnapshotOnly
  <2>2. PICK n : n = [reader[sess] EXCEPT !.fw = 0]
    OBVIOUS
  <2>3. /\ n.at = reader[sess].at /\ n.key = reader[sess].key /\ n.pos = reader[sess].pos
        /\ n.hi = reader[sess].hi /\ n.fw = 0
        /\ reader' = [reader EXCEPT ![sess] = n]
    BY <1>0, <2>1, <2>2 DEF Hands, SnapTypes, Readings
  <2>4. Sound(reader[sess])
    BY <2>1 DEF ReaderInv
  <2>5. Sound(n)
    BY <2>3, <2>4 DEF Sound, Taken
  <2>6. QED
    BY <1>0, <2>1, <2>3, <2>5 DEF SnapTypes, ReaderInv
<1>6. CASE Dies
  BY <1>1, <1>6 DEF Dies, ReaderInv
<1>7. ASSUME NEW s \in Sessions, Reading(s)
      PROVE  ReaderInv'
  <2>1. Step(s, reader'[s])
    BY <1>7, ReadingSteps
  <2>2. PICK n : n = reader'[s]
    OBVIOUS
  <2>3. Sound(n) /\ reader' = [reader EXCEPT ![s] = n]
    BY <2>1, <2>2 DEF Step
  <2>4. QED
    BY <1>0, <2>3 DEF SnapTypes, ReaderInv
<1> QED
  BY <1>3, <1>4, <1>5, <1>6, <1>7, StepCases, Zenon

LEMMA HandInvStep ==
  ASSUME KeysReadBack, TypeInv, ReaderInv, HandInv, [Next]_vars
  PROVE  HandInv'
<1>0. EngineTypeOK /\ InHand /\ SnapshotOnly /\ SnapTypes /\ BusyInv
  BY TypeParts, Zenon DEF TypeInv
<1>1. CASE Alone
  <2>1. Stays \/ Publishes \/ Settles \/ Quits \/ Between
    BY <1>0, <1>1, AlonePhases
  <2>2. UNCHANGED <<sess, reader>>
    BY <1>1 DEF Alone, snapVars
  <2>3. phase' \in {"transform", "publishing"} =>
          phase \in {"transform", "publishing"} /\ cur' = cur
    BY <2>1 DEF Stays, Publishes, Settles, Quits, Between
  <2>4. QED
    BY <2>2, <2>3 DEF HandInv
<1>2. CASE DialsDone \/ SnapshotEnds \/ GivesUp \/ Close \/ Dies
  <2>1. phase' \notin {"transform", "publishing"}
    BY <1>2, Kinds DEF Enters, Ends, CutsShort, Closes
  <2>2. QED
    BY <2>1 DEF HandInv
<1>3. CASE HandOver
  <2>1. Hands /\ sess \in Sessions
    BY <1>0, <1>3, Kinds DEF Hands, InSession, SnapshotOnly
  <2>2. PICK r : r = reader[sess]
    OBVIOUS
  <2>3. Sound(r) /\ r.fw # 0 /\ cur' = r.fw /\ sess' = sess
    BY <2>1, <2>2 DEF Hands, ReaderInv
  <2>4. reader'[sess'].fw = 0 /\ reader'[sess'].at = r.at /\ reader'[sess'].pos = r.pos
    BY <1>0, <2>1, <2>2 DEF Hands, SnapTypes, Readings
  <2>5. r.at \notin {"check", "open"} /\ r.fw = Taken(r)
    BY <2>3 DEF Sound
  <2>6. Taken(reader'[sess']) = Taken(r)
    BY <2>4 DEF Taken
  <2>7. QED
    BY <2>3, <2>4, <2>5, <2>6 DEF HandInv
<1>4. ASSUME NEW s \in Sessions, Reading(s)
      PROVE  HandInv'
  <2>1. UNCHANGED <<phase, sess, cur>>
    BY <1>4, ReadingAside DEF calmVars
  <2>2. PICK n : n = reader'[s]
    OBVIOUS
  <2>3. /\ reader' = [reader EXCEPT ![s] = n]
        /\ Quiet(reader[s], n) \/ Opens(reader[s], n) \/ Forwards(reader[s], n)
    BY <1>4, <2>2, ReadingSteps DEF Step
  <2>4. CASE phase \in {"transform", "publishing"}
    <3>1. /\ sess \in Sessions /\ reader[sess].at \notin {"check", "open"}
          /\ cur = IF reader[sess].fw # 0 THEN reader[sess].fw - 1
                   ELSE Taken(reader[sess])
      BY <1>0, <2>4 DEF InSession, SnapshotOnly, HandInv
    <3>2. CASE sess # s
      <4>1. reader'[sess] = reader[sess]
        BY <1>0, <2>3, <3>1, <3>2 DEF SnapTypes
      <4>2. QED
        BY <2>1, <3>1, <4>1 DEF HandInv
    <3>3. CASE sess = s
      <4>0. reader[s] \in Readings /\ Sound(reader[s])
        BY <1>0 DEF SnapTypes, ReaderInv
      <4>1. Taken(reader[s]) \in 0..MaxRows /\ Sized
        BY <4>0, RowFacts
      <4>2. n.at \notin {"check", "open"}
            /\ cur = IF n.fw # 0 THEN n.fw - 1 ELSE Taken(n)
        BY <2>3, <3>1, <3>3, <4>1 DEF Quiet, Opens, Forwards, Sized
      <4>3. QED
        BY <2>1, <2>2, <3>3, <4>2 DEF HandInv
    <3>4. QED
      BY <3>2, <3>3
  <2>5. QED
    BY <2>1, <2>4 DEF HandInv
<1>5. CASE UNCHANGED vars
  BY <1>5 DEF vars, engineVars, snapVars, HandInv
<1> QED
  BY <1>1, <1>2, <1>3, <1>4, <1>5, StepCases, Zenon

(* Only the end of a run leaves a session behind.                          *)
FreshFew == GivesUp \/ Fresh' \subseteq Fresh

LEMMA FreshInvStep ==
  ASSUME KeysReadBack, TypeInv, ReaderInv, HandInv, FreshInv, [Next]_vars
  PROVE  FreshInv' /\ FreshFew
<1>0. EngineTypeOK /\ InHand /\ SnapshotOnly /\ SnapTypes /\ BusyInv
  BY TypeParts, Zenon DEF TypeInv
<1>1. ASSUME Fresh' \subseteq Fresh, CutShort => CutShort'
      PROVE  FreshInv' /\ FreshFew
  BY <1>1 DEF FreshInv, FreshFew
<1>2. ASSUME Fresh' = {} PROVE FreshInv' /\ FreshFew
  BY <1>2 DEF FreshInv, FreshFew
<1>3. InSession => ~CutShort /\ Fresh = {}
  BY DEF InSession, CutShort, FreshInv
<1>4. CASE Alone
  <2>1. Stays \/ Publishes \/ Settles \/ Quits \/ Between
    BY <1>0, <1>4, AlonePhases
  <2>2. UNCHANGED <<sess, reader>>
    BY <1>4 DEF Alone, snapVars
  <2>3. CutShort => CutShort'
    BY <2>1, CutShortStays
  <2>4. CASE Quits
    <3>1. InSession /\ reader[sess].at \notin {"check", "open"}
      BY <2>4 DEF Quits, InSession, HandInv
    <3>2. Fresh' \subseteq Fresh
      BY <2>2, <3>1 DEF Fresh, Others
    <3>3. QED
      BY <1>1, <2>3, <3>2
  <2>5. CASE Stays \/ Publishes \/ Settles \/ Between
    <3>1. InSession <=> InSession'
      BY <2>5 DEF Stays, Publishes, Settles, Between, InSession
    <3>2. Fresh' \subseteq Fresh
      BY <2>2, <3>1 DEF Fresh, Others
    <3>3. QED
      BY <1>1, <2>3, <3>2
  <2>6. QED
    BY <2>1, <2>4, <2>5
<1>5. CASE DialsDone
  <2>1. ~InSession /\ ~CutShort /\ Fresh = {}
    BY <1>5, Kinds DEF Enters, InSession, CutShort, FreshInv
  <2>2. \A s \in Sessions : reader[s].at \notin {"check", "open"}
    BY <2>1 DEF Fresh, Others
  <2>3. CASE Enters
    <3>1. FreeSession \in Sessions /\ sess' = FreeSession /\ InSession'
      BY <1>0, <2>3, FreeSessionExists DEF Enters, InSession
    <3>2. \A s \in Sessions : s # FreeSession => reader'[s] = reader[s]
      BY <1>0, <2>3, <3>1 DEF Enters, SnapTypes
    <3>3. Fresh' = {}
      BY <2>2, <3>1, <3>2 DEF Fresh, Others
    <3>4. QED
      BY <1>2, <3>3
  <2>4. CASE phase' = "closing" /\ UNCHANGED snapVars
    <3>1. Fresh' = {}
      BY <2>2, <2>4 DEF Fresh, Others, snapVars
    <3>2. QED
      BY <1>2, <3>1
  <2>5. QED
    BY <1>5, <2>3, <2>4, Kinds
<1>6. CASE HandOver
  <2>1. Hands /\ InSession /\ InSession' /\ sess \in Sessions /\ sess' = sess
    BY <1>0, <1>6, Kinds DEF Hands, InSession, SnapshotOnly
  <2>2. \A s \in Sessions : s # sess => reader'[s] = reader[s]
    BY <1>0, <2>1 DEF Hands, SnapTypes
  <2>3. Fresh' = {}
    BY <1>3, <2>1, <2>2 DEF Fresh, Others
  <2>4. QED
    BY <1>2, <2>3
<1>7. CASE SnapshotEnds
  <2>1. InSession /\ reader[sess].at = "ended" /\ UNCHANGED <<sess, reader>>
    BY <1>7, Kinds DEF Ends, InSession, snapVars
  <2>2. Fresh' = {}
    BY <1>3, <2>1 DEF Fresh, Others
  <2>3. QED
    BY <1>2, <2>2
<1>8. CASE GivesUp
  <2>1. InSession /\ UNCHANGED <<sess, reader>>
    BY <1>8, Kinds DEF CutsShort, InSession, snapVars
  <2>2. CutShort'
    BY <1>8, Kinds, Zenon DEF CutsShort, CutShort
  <2>3. Fresh' \subseteq {sess}
    BY <1>3, <2>1 DEF Fresh, Others
  <2>4. QED
    BY <1>8, <2>2, <2>3 DEF FreshInv, FreshFew
<1>9. CASE Close
  <2>1. ~InSession /\ ~InSession' /\ UNCHANGED reader
    BY <1>9, Kinds DEF Closes, InSession
  <2>2. Fresh' \subseteq Fresh
    BY <2>1 DEF Fresh, Others
  <2>3. CutShort => CutShort'
    BY <1>9, CutShortStays
  <2>4. QED
    BY <1>1, <2>2, <2>3
<1>10. CASE Dies
  <2>1. Fresh' = {}
    BY <1>10 DEF Dies, Fresh, Others, NoReader
  <2>2. QED
    BY <1>2, <2>1
<1>11. ASSUME NEW s \in Sessions, Reading(s)
       PROVE  FreshInv' /\ FreshFew
  <2>1. UNCHANGED <<phase, sess, cancelled>>
    BY <1>11, ReadingAside DEF calmVars
  <2>2. PICK n : n = reader'[s]
    OBVIOUS
  <2>3. /\ reader' = [reader EXCEPT ![s] = n]
        /\ Quiet(reader[s], n) \/ Opens(reader[s], n) \/ Forwards(reader[s], n)
    BY <1>11, <2>2, ReadingSteps DEF Step
  <2>4. n.at \in {"check", "open"} => reader[s].at \in {"check", "open"}
    BY <2>3 DEF Quiet, Opens, Forwards
  <2>5. \A t \in Sessions : reader'[t].at \in {"check", "open"} =>
          reader[t].at \in {"check", "open"}
    BY <1>0, <2>3, <2>4 DEF SnapTypes
  <2>6. Fresh' \subseteq Fresh
    BY <2>1, <2>5 DEF Fresh, Others, InSession
  <2>7. CutShort => CutShort'
    BY <2>1, Zenon DEF CutShort
  <2>8. QED
    BY <1>1, <2>6, <2>7
<1>12. CASE UNCHANGED vars
  <2>1. UNCHANGED <<phase, sess, reader>> /\ cancelled' = cancelled
    BY <1>12, Zenon DEF vars, engineVars, snapVars
  <2>2. Fresh' \subseteq Fresh
    BY <2>1 DEF Fresh, Others, InSession
  <2>3. CutShort => CutShort'
    BY <2>1, Zenon DEF CutShort
  <2>4. QED
    BY <1>1, <2>2, <2>3
<1> QED
  BY <1>4, <1>5, <1>6, <1>7, <1>8, <1>9, <1>10, <1>11, <1>12, StepCases, Zenon

LEMMA EndInvStep ==
  ASSUME KeysReadBack, TypeInv, ReaderInv, EndInv, [Next]_vars
  PROVE  EndInv'
<1>0. SnapTypes /\ RowAtHand /\ BusyInv /\ EngineTypeOK /\ SnapshotOnly /\ conf' = conf
  BY TypeParts, TopStep, Zenon DEF TypeInv
<1>1. CASE UNCHANGED <<reader, done>>
  BY <1>0, <1>1, Zenon DEF EndInv, Complete
<1>2. CASE Alone \/ SnapshotEnds \/ GivesUp \/ Close \/ UNCHANGED vars
  <2>1. UNCHANGED <<reader, done>>
    BY <1>2, Kinds, Zenon DEF Alone, Ends, CutsShort, Closes, vars, snapVars
  <2>2. QED
    BY <1>1, <2>1
<1>3. ASSUME NEW s \in Sessions, NEW n, reader' = [reader EXCEPT ![s] = n], Complete(n)',
             done => done'
      PROVE  EndInv'
  <2>1. ASSUME NEW t \in Sessions PROVE Complete(reader[t])'
    <3>1. CASE t = s
      <4>1. reader'[s] = n
        BY <1>0, <1>3 DEF SnapTypes
      <4>2. QED
        BY <1>3, <3>1, <4>1, Zenon DEF Complete
    <3>2. CASE t # s
      <4>1. reader'[t] = reader[t]
        BY <1>0, <1>3, <3>2 DEF SnapTypes
      <4>2. Complete(reader[t])
        BY Zenon DEF EndInv
      <4>3. QED
        BY <1>0, <1>3, <4>1, <4>2, Zenon DEF Complete
    <3>3. QED
      BY <3>1, <3>2
  <2>2. QED
    BY <2>1, Zenon DEF EndInv
<1>4. CASE DialsDone
  <2>1. CASE Enters
    <3>1. FreeSession \in Sessions
      BY <1>0, <2>1, FreeSessionExists DEF Enters
    <3>2. PICK n : n = [NoReader EXCEPT !.at = "check"]
      OBVIOUS
    <3>3. n.at = "check"
      BY <3>2 DEF NoReader
    <3>4. Complete(n)'
      BY <3>3 DEF Complete
    <3>5. reader' = [reader EXCEPT ![FreeSession] = n] /\ done' = done
      BY <2>1, <3>2, Zenon DEF Enters
    <3>6. QED
      BY <1>3, <3>1, <3>4, <3>5
  <2>2. QED
    BY <1>1, <1>4, <2>1, Kinds DEF snapVars
<1>5. CASE HandOver
  <2>1. Hands /\ sess \in Sessions
    BY <1>0, <1>5, Kinds DEF Hands, InSession, SnapshotOnly
  <2>2. PICK n : n = [reader[sess] EXCEPT !.fw = 0]
    OBVIOUS
  <2>3. /\ n.at = reader[sess].at /\ n.pos = reader[sess].pos
        /\ n.failed = reader[sess].failed
        /\ reader' = [reader EXCEPT ![sess] = n]
    BY <1>0, <2>1, <2>2 DEF Hands, SnapTypes, Readings
  <2>4. done' = done
    BY <2>1, Zenon DEF Hands
  <2>5. Complete(n)'
    <3>1. Complete(reader[sess])
      BY <2>1, Zenon DEF EndInv
    <3>2. QED
      BY <1>0, <2>3, <2>4, <3>1, Zenon DEF Complete
  <2>6. QED
    BY <1>3, <2>1, <2>3, <2>4, <2>5
<1>6. CASE Dies
  <2>1. \A s \in Sessions : reader'[s].at = "none"
    BY <1>6 DEF Dies, NoReader
  <2>2. QED
    BY <2>1 DEF EndInv, Complete
<1>7. ASSUME NEW s \in Sessions, Reading(s)
      PROVE  EndInv'
  <2>0. /\ reader[s] \in Readings /\ Sound(reader[s])
        /\ reader' = [reader EXCEPT ![s] = reader'[s]]
    BY <1>0, <1>7, ReadingMoves DEF SnapTypes, ReaderInv
  <2>1. done => done'
    BY <1>7, Zenon DEF Reading, Check, Open, ReaderFails, PgQuery, PgQueryRejected,
       MongoFind, BatchFrom, Fetch, Forward, SendCancelled, Save, Finish, Mark,
       CloseChannels
  <2>2. PICK n : n = reader'[s]
    OBVIOUS
  <2>3. CASE Check(s)
    <3>1. \/ Goes(s, "open")
          \/ LeavesWith(s, TRUE)
          \/ LeavesWith(s, FALSE) /\ (conf.mode = "never" \/ (done /\ done' = done))
      BY <2>3, Zenon DEF Check
    <3>2. n.at = "open" \/ n.failed = TRUE \/ conf.mode = "never" \/ done'
      BY <1>0, <2>2, <3>1 DEF Goes, LeavesWith, SnapTypes, Readings
    <3>3. Complete(n)'
      BY <1>0, <3>2 DEF Complete
    <3>4. QED
      BY <1>3, <2>0, <2>1, <2>2, <3>3
  <2>4. CASE \/ Open(s) \/ PgQuery(s) \/ MongoFind(s) \/ Forward(s) \/ Save(s)
    <3>1. n.at \notin {"leave", "ended"}
      BY <1>0, <2>0, <2>2, <2>4 DEF Open, PgQuery, MongoFind, BatchFrom, Forward, Save,
         SnapTypes, Readings
    <3>2. Complete(n)'
      BY <3>1 DEF Complete
    <3>3. QED
      BY <1>3, <2>0, <2>1, <2>2, <3>2
  <2>5. CASE ReaderFails(s) \/ PgQueryRejected(s) \/ SendCancelled(s)
    <3>1. n.failed = TRUE
      BY <1>0, <2>0, <2>2, <2>5 DEF ReaderFails, PgQueryRejected, SendCancelled,
         LeavesWith, SnapTypes, Readings
    <3>2. Complete(n)'
      BY <3>1, Zenon DEF Complete
    <3>3. QED
      BY <1>3, <2>0, <2>1, <2>2, <3>2
  <2>6. CASE Fetch(s) \/ Finish(s) \/ Mark(s)
    <3>1. n.at \in {"leave", "ended"} => n.pos = MaxRows
      <4>1. BatchEnd(reader[s].key) = reader[s].key => reader[s].key = MaxRows
        BY <2>0, RowFacts
      <4>2. QED
        BY <1>0, <2>0, <2>2, <2>6, <4>1 DEF Fetch, Finish, Mark, Goes, SnapTypes,
           Readings, Sound
    <3>2. Complete(n)'
      BY <3>1 DEF Complete
    <3>3. QED
      BY <1>3, <2>0, <2>1, <2>2, <3>2
  <2>7. CASE CloseChannels(s) /\ reader[s].fw = 0
    <3>1. n.pos = reader[s].pos /\ n.failed = reader[s].failed /\ reader[s].at = "leave"
      BY <1>0, <2>0, <2>2, <2>7 DEF CloseChannels, Goes, SnapTypes, Readings
    <3>2. reader[s].failed \/ conf.mode = "never" \/ reader[s].pos = MaxRows \/ done
      BY <3>1 DEF EndInv, Complete
    <3>3. Complete(n)'
      BY <1>0, <2>1, <3>1, <3>2, Zenon DEF Complete
    <3>4. QED
      BY <1>3, <2>0, <2>1, <2>2, <3>3
  <2>8. QED
    BY <1>7, <2>3, <2>4, <2>5, <2>6, <2>7, Zenon DEF Reading
<1> QED
  BY <1>2, <1>4, <1>5, <1>6, <1>7, StepCases, Zenon

-----------------------------------------------------------------------------
(* Where the rows of the present session are.                              *)
PlaceOK ==
  /\ Left \in Rows0 /\ Entered \in Rows0 /\ Left <= Entered
  /\ ~InSession => Left = 0 /\ Entered = 0
  /\ InSession =>
       LET r == reader[sess] IN
       /\ Entered = Taken(r) /\ Entered <= Left + 2 /\ Savable(r) <= Left + 2
       /\ phase # "snapshot" => Left = cur - 1
       /\ phase = "snapshot" =>
            /\ Left = IF r.fw # 0 THEN r.fw - 1 ELSE Taken(r)
            /\ Entered <= Left + 1 /\ Savable(r) <= Left + 1

LEMMA PlacesHold == BaseInv /\ ReaderInv /\ HandInv => PlaceOK
<1> SUFFICES ASSUME BaseInv, ReaderInv, HandInv PROVE PlaceOK
  OBVIOUS
<1>0. Left \in Rows0 /\ Entered \in Rows0 /\ Sized /\ 0 \in Rows0
  BY LeftInRange, Sizes DEF LeftOK, Rows0, Sized
<1>1. CASE ~InSession
  <2>1. Left = 0 /\ Entered = 0
    BY <1>1 DEF InSession, Left, Entered, Live
  <2>2. QED
    BY <1>0, <1>1, <2>1 DEF PlaceOK
<1>2. CASE InSession
  <2>1. PICK r : r = reader[sess]
    OBVIOUS
  <2>2. sess \in Sessions /\ r \in Readings /\ Sound(r)
    BY <1>2, <2>1 DEF BaseInv, SnapshotOnly, SnapTypes, ReaderInv
  <2>3. /\ r.fw \in 0..MaxRows /\ Taken(r) \in 0..MaxRows /\ Savable(r) \in 0..MaxRows
        /\ Savable(r) <= Taken(r) + 1
        /\ r.fw # 0 => Savable(r) <= Taken(r)
    BY <2>2, RowFacts
  <2>4. r.fw # 0 => r.fw = Taken(r)
    BY <2>2 DEF Sound
  <2>5. r.at = "check" => Taken(r) = 0 /\ r.fw = 0 /\ phase = "snapshot"
    BY <1>2, <2>1, <2>2 DEF Sound, Taken, HandInv, InSession
  <2>6. Entered = Taken(r)
    BY <1>2, <2>1, <2>5 DEF Entered, Live, InSession, Taken
  <2>7. phase # "snapshot" => Left = cur - 1
    BY <1>2, <2>1, <2>5 DEF Left, Live, InSession
  <2>8. phase = "snapshot" => Left = IF r.fw # 0 THEN r.fw - 1 ELSE Taken(r)
    BY <1>2, <2>1, <2>5, <2>6 DEF Left, Live, InSession
  <2>9. phase # "snapshot" => cur = IF r.fw # 0 THEN r.fw - 1 ELSE Taken(r)
    BY <1>2, <2>1 DEF HandInv, InSession
  <2>10. /\ Left <= Entered /\ Entered <= Left + 2 /\ Savable(r) <= Left + 2
         /\ phase = "snapshot" => Entered <= Left + 1 /\ Savable(r) <= Left + 1
    <3>1. CASE phase = "snapshot"
      BY <1>0, <2>3, <2>4, <2>6, <2>8, <3>1 DEF Sized, Rows0
    <3>2. CASE phase # "snapshot"
      <4>1. cur \in 1..MaxRows
        BY <1>0, <1>2, <3>2 DEF Sized, BaseInv, InHand, Processing, InSession
      <4>2. QED
        BY <1>0, <2>3, <2>4, <2>6, <2>7, <2>9, <3>2, <4>1 DEF Sized, Rows0
    <3>3. QED
      BY <3>1, <3>2
  <2>11. QED
    BY <1>0, <1>2, <2>1, <2>6, <2>7, <2>8, <2>10 DEF PlaceOK
<1> QED
  BY <1>1, <1>2

RowInv == ReaderInv /\ HandInv /\ FreshInv /\ EndInv

LEMMA RowInvStep ==
  ASSUME KeysReadBack, TypeInv, RowInv, [Next]_vars
  PROVE  RowInv' /\ PlaceOK /\ PlaceOK'
<1>1. RowInv'
  BY ReaderInvStep, HandInvStep, FreshInvStep, EndInvStep, Zenon DEF RowInv
<1>2. BaseInv /\ BaseInv'
  BY TopStep
<1>3. (BaseInv /\ ReaderInv /\ HandInv) /\ (BaseInv /\ ReaderInv /\ HandInv)'
  BY <1>1, <1>2, Zenon DEF RowInv
<1>4. PlaceOK /\ PlaceOK'
  BY <1>3, PlacesHold, PTL
<1> QED
  BY <1>1, <1>4

(* No row is saved further ahead of what has left than the pipeline holds. *)
LEMMA TopInvStep ==
  ASSUME KeysReadBack, TypeInv, RowInv, TopInv, [Next]_vars
  PROVE  TopInv'
<1>0. SnapTypes /\ BusyInv /\ EngineTypeOK /\ SnapshotOnly /\ top \in Rows0
  BY TypeParts, Zenon DEF TypeInv
<1>1. /\ top' \in Rows0 /\ top <= top'
      /\ Tracked => Left' <= top'
      /\ \A k \in Resumed : k <= top'
  BY TopStep
<1>2. PlaceOK' /\ Rows0 \subseteq Nat
  BY RowInvStep, Sizes DEF Rows0, Sized
<1>3. PICK m \in Rows0 : m = top'
  BY <1>1
<1>4. \A x \in Nat : x <= top + 2 => x <= m + 2
  <2>1. top \in Nat /\ m \in Nat /\ top <= m
    BY <1>0, <1>1, <1>2, <1>3
  <2>2. QED
    BY <2>1
<1>5. /\ Passed \in Nat /\ Passed <= m + 2
      /\ \A s \in Sessions : Savable(reader[s]) \in Nat /\ Savable(reader[s]) <= m + 2
  <2>1. Passed \in Nat
    BY <1>0, <1>2, PassedKept
  <2>2. ASSUME NEW s \in Sessions PROVE Savable(reader[s]) \in Nat
    <3>1. reader[s] \in Readings /\ Sound(reader[s])
      BY <1>0 DEF SnapTypes, RowInv, ReaderInv
    <3>2. QED
      BY <3>1, RowFacts DEF Sized
  <2>3. QED
    BY <1>4, <2>1, <2>2 DEF TopInv
<1>6. ASSUME Left' <= m, Passed' <= m + 2,
             \A s \in Sessions : Savable(reader'[s]) <= m + 2
      PROVE  TopInv'
  BY <1>3, <1>6 DEF TopInv
<1>7. Left' <= m
  <2>1. CASE UNCHANGED vars
    <3>1. Left' = Left
      BY <2>1 DEF vars, engineVars, snapVars, Left, Entered, Live
    <3>2. Left <= top /\ Left \in Nat
      BY <1>2, RowInvStep DEF TopInv, PlaceOK
    <3>3. QED
      BY <1>0, <1>1, <1>2, <1>3, <3>1, <3>2
  <2>2. QED
    BY <1>1, <1>3, <2>1, StepCases
<1>8. CASE UNCHANGED <<reader, cursor, done>>
  BY <1>5, <1>6, <1>7, <1>8, PassedKept
<1>9. CASE Alone \/ SnapshotEnds \/ GivesUp \/ Close \/ UNCHANGED vars
  <2>1. UNCHANGED <<reader, cursor, done>>
    BY <1>9, Kinds, Zenon DEF Alone, Ends, CutsShort, Closes, vars, snapVars
  <2>2. QED
    BY <1>8, <2>1
<1>10. CASE DialsDone
  <2>1. CASE Enters
    <3>1. FreeSession \in Sessions /\ UNCHANGED <<cursor, done>>
      BY <1>0, <2>1, FreeSessionExists DEF Enters
    <3>2. ASSUME NEW s \in Sessions
          PROVE  Savable(reader'[s]) <= m + 2
      <4>1. CASE s = FreeSession
        <5>1. reader'[s].at = "check"
          BY <1>0, <2>1, <4>1 DEF Enters, SnapTypes, NoReader
        <5>2. Savable(reader'[s]) = 0
          BY <5>1 DEF Savable
        <5>3. QED
          BY <1>2, <5>2
      <4>2. CASE s # FreeSession
        BY <1>0, <1>5, <2>1, <3>1, <4>2 DEF Enters, SnapTypes
      <4>3. QED
        BY <4>1, <4>2
    <3>3. QED
      BY <1>5, <1>6, <1>7, <3>1, <3>2, PassedKept
  <2>2. QED
    BY <1>8, <1>10, <2>1, Kinds DEF snapVars
<1>11. CASE HandOver
  <2>1. Hands /\ sess \in Sessions /\ InSession' /\ UNCHANGED <<sess, cursor, done>>
    BY <1>0, <1>11, Kinds DEF Hands, InSession, SnapshotOnly
  <2>2. Savable(reader'[sess']) <= Left' + 2 /\ Left' \in Nat
    BY <1>2, <2>1 DEF PlaceOK
  <2>3. PICK l : l = Left'
    OBVIOUS
  <2>4. Savable(reader'[sess]) <= m + 2
    <3>1. PICK v : v = Savable(reader'[sess])
      OBVIOUS
    <3>2. v \in Nat
      <4>1. SnapTypes' /\ ReaderInv'
        BY TopStep, RowInvStep, Zenon DEF RowInv, BaseInv
      <4>2. reader'[sess] \in Readings /\ Sound(reader'[sess])
        BY <2>1, <4>1 DEF SnapTypes, ReaderInv
      <4>3. QED
        BY <3>1, <4>2, RowFacts DEF Sized
    <3>3. v <= l + 2 /\ l \in Nat /\ l <= m
      BY <1>7, <2>1, <2>2, <2>3, <3>1
    <3>4. v <= m + 2
      BY <1>2, <3>2, <3>3
    <3>5. QED
      BY <3>1, <3>4
  <2>5. \A s \in Sessions : s # sess => reader'[s] = reader[s]
    BY <1>0, <2>1 DEF Hands, SnapTypes
  <2>6. \A s \in Sessions : Savable(reader'[s]) <= m + 2
    BY <1>5, <2>4, <2>5
  <2>7. QED
    BY <1>5, <1>6, <1>7, <2>1, <2>6, PassedKept
<1>12. CASE Dies
  <2>1. \A s \in Sessions : Savable(reader'[s]) = 0
    BY <1>12 DEF Dies, Savable, NoReader
  <2>2. 0 <= m + 2 /\ UNCHANGED <<cursor, done>>
    BY <1>2, <1>12 DEF Dies
  <2>3. QED
    BY <1>5, <1>6, <1>7, <2>1, <2>2, PassedKept
<1>13. ASSUME NEW s \in Sessions, Reading(s)
       PROVE  TopInv'
  <2>1. PICK n : n = reader'[s]
    OBVIOUS
  <2>2. /\ reader' = [reader EXCEPT ![s] = n]
        /\ Quiet(reader[s], n) \/ Opens(reader[s], n) \/ Forwards(reader[s], n)
        /\ Saves(reader[s]) /\ n \in Readings /\ Sound(n)
    BY <1>13, <2>1, ReadingSteps DEF Step, RowInv
  <2>3. Savable(n) \in Nat /\ Taken(n) \in Nat /\ Savable(n) <= Taken(n) + 1
    BY <2>2, RowFacts DEF Sized
  <2>4. Savable(n) <= m + 2
    <3>1. CASE Opens(reader[s], n)
      <4>1. Taken(n) \in Resumed
        BY <2>1, <3>1 DEF Opens, Resumed
      <4>2. Taken(n) <= m
        BY <1>1, <1>3, <4>1
      <4>3. QED
        BY <1>2, <2>3, <4>2
    <3>2. CASE Savable(n) <= Savable(reader[s])
      BY <1>2, <1>5, <2>3, <3>2
    <3>3. QED
      BY <2>2, <3>1, <3>2 DEF Quiet, Forwards
  <2>5. Passed' <= m + 2
    <3>1. PICK q : q = Passed'
      OBVIOUS
    <3>2. q \in Nat
      <4>1. SnapTypes'
        BY TopStep, Zenon DEF BaseInv
      <4>2. cursor' \in Rows0 /\ done' \in BOOLEAN /\ MaxRows \in Rows0
        BY <4>1, Sizes DEF SnapTypes, Sized, Rows0
      <4>3. q = MaxRows \/ q = cursor'
        BY <3>1 DEF Passed
      <4>4. QED
        BY <1>2, <4>2, <4>3
    <3>3. q <= Passed \/ (q = Taken(reader[s]) /\ q <= Savable(reader[s]))
      BY <2>2, <3>1 DEF Saves
    <3>4. q <= m + 2
      BY <1>2, <1>5, <3>2, <3>3
    <3>5. QED
      BY <3>1, <3>4
  <2>6. \A t \in Sessions : Savable(reader'[t]) <= m + 2
    BY <1>0, <1>5, <2>2, <2>4 DEF SnapTypes
  <2>7. QED
    BY <1>6, <1>7, <2>5, <2>6
<1> QED
  BY <1>9, <1>10, <1>11, <1>12, <1>13, StepCases, Zenon

-----------------------------------------------------------------------------
(* What becomes exposed: a row that was exposed before, but for those that *)
(* a run leaves behind when it ends, and the first row of a session that   *)
(* finds out where to resume when its run is over.                         *)
LEMMA ExposedBefore ==
  ASSUME KeysReadBack, TypeInv, RowInv, [Next]_vars, NEW e \in Exposed'
  PROVE  /\ e \in 1..MaxRows /\ MaxRows \in Nat
         /\ Left \in Nat /\ Entered \in Nat /\ Passed \in Nat
         /\ ~Settled(e)'
         /\ \E l, h, q \in Nat :
              /\ l = Left' /\ h = Entered' /\ q = Passed'
              /\ ~(l < e /\ e <= h)
              /\ e <= l \/ e <= q \/ \E t \in Others' : e <= Savable(reader'[t])
         /\ /\ ~(Left < e /\ e <= Entered)
            /\ e <= Left \/ e <= Passed \/ \E t \in Others : e <= Savable(reader[t])
            => e \in Exposed
<1>0. Sized /\ Rows0 \subseteq Nat
  BY Sizes DEF Sized, Rows0
<1>1. /\ EngineTypeOK /\ BaseInv' /\ BaseInv
      /\ LeftOK /\ LeftOK'
  BY TopStep DEF BaseInv
<1>2. Left \in Nat /\ Entered \in Nat
  BY <1>0, <1>1 DEF LeftOK
<1>3. Passed \in Nat
  BY <1>0, <1>1, PassedKept DEF BaseInv
<1>4. PICK l : l = Left'
  OBVIOUS
<1>5. PICK h : h = Entered'
  OBVIOUS
<1>6. PICK q : q = Passed'
  OBVIOUS
<1>7. l \in Nat /\ h \in Nat
  BY <1>0, <1>1, <1>4, <1>5 DEF LeftOK
<1>8. q \in Nat
  <2>1. cursor' \in Rows0 /\ MaxRows \in Rows0
    BY <1>0, <1>1 DEF BaseInv, SnapTypes, Sized, Rows0
  <2>2. q = MaxRows \/ q = cursor'
    BY <1>6 DEF Passed
  <2>3. QED
    BY <1>0, <2>1, <2>2
<1>9. /\ e \in Events /\ ~Settled(e)' /\ e \notin (l + 1)..h
      /\ e <= l \/ e <= q \/ \E t \in Others' : e <= Savable(reader'[t])
  <2>1. e \in Events /\ Unsettled(e)' /\ e \notin Window' /\ Reached(e)'
    BY DEF Exposed
  <2>2. Window' = (l + 1)..h
    BY <1>4, <1>5, Zenon DEF Window
  <2>3. QED
    BY <1>4, <1>6, <2>1, <2>2 DEF Unsettled, Reached
<1>10. e \in 1..MaxRows /\ MaxRows \in Nat
  BY <1>0, <1>9 DEF Sized
<1>11. ~(l < e /\ e <= h)
  BY <1>7, <1>9, <1>10
<1>12. ~Settled(e)
  <2>1. EngineStep \/ Panic
    BY <1>1, EngineSteps, Zenon DEF TypeInv, BaseInv
  <2>2. QED
    BY <1>1, <1>9, <2>1, SettledStep
<1>13. ASSUME ~(Left < e /\ e <= Entered),
              e <= Left \/ e <= Passed \/ \E t \in Others : e <= Savable(reader[t])
       PROVE  e \in Exposed
  <2>1. e \notin Window
    BY <1>2, <1>10, <1>13 DEF Window
  <2>2. QED
    BY <1>9, <1>12, <1>13, <2>1 DEF Exposed, Unsettled, Reached
<1> QED
  BY <1>2, <1>3, <1>4, <1>5, <1>6, <1>7, <1>8, <1>9, <1>10, <1>11, <1>13

(* A session that was left behind.                                         *)
LEMMA ExposedAside ==
  ASSUME KeysReadBack, TypeInv, RowInv, [Next]_vars, NEW s \in Others, Reading(s),
         NEW e \in Exposed'
  PROVE  \/ e \in Exposed
         \/ Opens(reader[s], reader'[s]) /\ e = Taken(reader'[s]) + 1
<1>0. /\ e \in 1..MaxRows /\ MaxRows \in Nat
      /\ Left \in Nat /\ Entered \in Nat /\ Passed \in Nat
      /\ /\ ~(Left < e /\ e <= Entered)
         /\ e <= Left \/ e <= Passed \/ \E t \in Others : e <= Savable(reader[t])
         => e \in Exposed
  BY ExposedBefore
<1>1. PICK l, h, q \in Nat :
        /\ l = Left' /\ h = Entered' /\ q = Passed'
        /\ ~(l < e /\ e <= h)
        /\ e <= l \/ e <= q \/ \E t \in Others' : e <= Savable(reader'[t])
  BY ExposedBefore
<1>2. s \in Sessions /\ PlaceOK /\ PlaceOK' /\ SnapTypes /\ SnapshotOnly /\ ReaderInv
  BY RowInvStep, TopStep DEF RowInv, BaseInv, Others
<1>3. UNCHANGED <<phase, cur, sess>>
  BY <1>2, ReadingAside DEF calmVars
<1>4. Others' = Others
  BY <1>3 DEF Others, InSession
<1>5. PICK n : n = reader'[s]
  OBVIOUS
<1>6. PICK r : r = reader[s]
  OBVIOUS
<1>7. /\ reader' = [reader EXCEPT ![s] = n]
      /\ Quiet(r, n) \/ Opens(r, n) \/ Forwards(r, n)
      /\ Saves(r) /\ n \in Readings /\ Sound(n)
  BY <1>2, <1>5, <1>6, ReadingSteps DEF Step, RowInv
<1>8. /\ Taken(n) \in 0..MaxRows /\ Savable(n) \in 0..MaxRows
      /\ Savable(n) <= Taken(n) + 1
  BY <1>7, RowFacts
<1>9. l = Left /\ h = Entered
  <2>1. CASE InSession
    <3>1. s # sess /\ sess \in Sessions
      BY <1>2, <2>1 DEF Others, SnapshotOnly
    <3>2. reader'[sess] = reader[sess]
      BY <1>2, <1>7, <3>1 DEF SnapTypes
    <3>3. QED
      BY <1>1, <1>3, <3>2 DEF Left, Entered, Live
  <2>2. CASE ~InSession
    BY <1>1, <1>2, <1>3, <2>2 DEF PlaceOK, InSession
  <2>3. QED
    BY <2>1, <2>2
<1>10. CASE e <= l \/ e <= Passed
  BY <1>0, <1>1, <1>9, <1>10
<1>11. CASE e <= q /\ ~(e <= Passed)
  <2>1. q = Taken(r) /\ Taken(r) <= Savable(r)
    BY <1>0, <1>1, <1>7, <1>11 DEF Saves
  <2>2. e <= Savable(r)
    <3>1. Savable(r) \in 0..MaxRows /\ Taken(r) \in 0..MaxRows
      BY <1>2, <1>6, RowFacts DEF SnapTypes, ReaderInv
    <3>2. QED
      BY <1>0, <1>11, <2>1, <3>1
  <2>3. QED
    BY <1>0, <1>1, <1>6, <1>9, <2>2
<1>12. ASSUME NEW t \in Others, e <= Savable(reader'[t]), ~(e <= Passed)
       PROVE  \/ e \in Exposed
              \/ Opens(r, n) /\ e = Taken(n) + 1
  <2>1. CASE t # s
    <3>1. reader'[t] = reader[t]
      BY <1>2, <1>7, <2>1 DEF SnapTypes, Others
    <3>2. QED
      BY <1>0, <1>1, <1>9, <1>12, <3>1
  <2>2. CASE t = s /\ Opens(r, n)
    <3>1. Taken(n) <= Passed /\ e <= Savable(n)
      BY <1>5, <1>12, <2>2 DEF Opens
    <3>2. e = Taken(n) + 1
      BY <1>0, <1>8, <1>12, <3>1
    <3>3. QED
      BY <2>2, <3>2
  <2>3. CASE t = s /\ ~Opens(r, n)
    <3>1. Savable(n) <= Savable(r) /\ e <= Savable(n)
      BY <1>5, <1>7, <1>12, <2>3 DEF Quiet, Forwards
    <3>2. Savable(r) \in 0..MaxRows
      BY <1>2, <1>6, RowFacts DEF SnapTypes, ReaderInv
    <3>3. e <= Savable(r)
      BY <1>0, <1>8, <3>1, <3>2
    <3>4. QED
      BY <1>0, <1>1, <1>6, <1>9, <3>3
  <2>4. QED
    BY <2>1, <2>2, <2>3
<1> QED
  BY <1>1, <1>4, <1>5, <1>6, <1>10, <1>11, <1>12

(* The session of the run.                                                 *)
LEMMA ExposedReading ==
  ASSUME KeysReadBack, TypeInv, RowInv, [Next]_vars,
         NEW s \in Sessions \ Others, Reading(s), NEW e \in Exposed'
  PROVE  e \in Exposed
<1>0. /\ e \in 1..MaxRows /\ MaxRows \in Nat
      /\ Left \in Nat /\ Entered \in Nat /\ Passed \in Nat
      /\ /\ ~(Left < e /\ e <= Entered)
         /\ e <= Left \/ e <= Passed \/ \E t \in Others : e <= Savable(reader[t])
         => e \in Exposed
  BY ExposedBefore
<1>1. PICK l, h, q \in Nat :
        /\ l = Left' /\ h = Entered' /\ q = Passed'
        /\ ~(l < e /\ e <= h)
        /\ e <= l \/ e <= q \/ \E t \in Others' : e <= Savable(reader'[t])
  BY ExposedBefore
<1>2. PlaceOK /\ PlaceOK' /\ SnapTypes /\ ReaderInv /\ HandInv
  BY RowInvStep, TopStep DEF RowInv, BaseInv
<1>3. s = sess /\ InSession
  BY DEF Others
<1>4. UNCHANGED <<phase, cur, sess>>
  BY ReadingAside DEF calmVars
<1>5. PICK n : n = reader'[s]
  OBVIOUS
<1>6. PICK r : r = reader[s]
  OBVIOUS
<1>7. /\ reader' = [reader EXCEPT ![s] = n]
      /\ Quiet(r, n) \/ Opens(r, n) \/ Forwards(r, n)
      /\ Saves(r) /\ n \in Readings /\ Sound(n)
      /\ r \in Readings /\ Sound(r)
  BY <1>2, <1>5, <1>6, ReadingSteps DEF Step, RowInv, SnapTypes, ReaderInv
<1>8. /\ Taken(n) \in 0..MaxRows /\ Taken(r) \in 0..MaxRows
      /\ n.fw \in 0..MaxRows
  BY <1>7, RowFacts
<1>9. Others' = Others /\ InSession'
  BY <1>3, <1>4 DEF Others, InSession
<1>10. /\ Entered = Taken(r)
       /\ phase # "snapshot" => Left = cur - 1
       /\ phase = "snapshot" => Left = IF r.fw # 0 THEN r.fw - 1 ELSE Taken(r)
  BY <1>2, <1>3, <1>6 DEF PlaceOK
<1>11. /\ h = Taken(n)
       /\ phase # "snapshot" => l = cur - 1
       /\ phase = "snapshot" => l = IF n.fw # 0 THEN n.fw - 1 ELSE Taken(n)
  BY <1>1, <1>2, <1>3, <1>4, <1>5, <1>9 DEF PlaceOK
<1>12. \A t \in Others : reader'[t] = reader[t]
  BY <1>2, <1>3, <1>7 DEF SnapTypes, Others
<1>13. ~(Left < e /\ e <= Entered) /\ (e <= l \/ e <= q => e <= Left \/ e <= Passed)
  <2>1. CASE Quiet(r, n)
    <3>1. l = Left /\ h = Entered
      BY <1>10, <1>11, <2>1 DEF Quiet
    <3>2. q <= Passed \/ q = Entered
      BY <1>1, <1>7, <1>10 DEF Saves
    <3>3. QED
      BY <1>0, <1>1, <3>1, <3>2
  <2>2. CASE Opens(r, n)
    <3>1. phase = "snapshot"
      BY <1>2, <1>3, <1>6, <2>2 DEF Opens, HandInv, InSession
    <3>2. Left = 0 /\ Entered = 0 /\ l = Taken(n) /\ Taken(n) <= Passed
      BY <1>10, <1>11, <2>2, <3>1 DEF Opens
    <3>3. q <= Passed
      BY <1>1, <1>7, <2>2 DEF Saves, Opens
    <3>4. QED
      BY <1>0, <1>1, <1>8, <3>2, <3>3
  <2>3. CASE Forwards(r, n)
    <3>1. l = Left
      <4>1. n.fw # 0 /\ n.fw - 1 = Taken(r) /\ r.fw = 0
        BY <1>8, <2>3 DEF Forwards
      <4>2. QED
        BY <1>10, <1>11, <4>1
    <3>2. h = Entered + 1
      BY <1>10, <1>11, <2>3 DEF Forwards
    <3>3. q <= Passed
      BY <1>1, <1>7, <2>3 DEF Saves, Forwards
    <3>4. QED
      BY <1>0, <1>1, <3>1, <3>2, <3>3
  <2>4. QED
    BY <1>7, <2>1, <2>2, <2>3
<1> QED
  BY <1>0, <1>1, <1>9, <1>12, <1>13

(* The rest of the engine.                                                 *)
Leaves == (Alone /\ Quits) \/ GivesUp \/ Dies

LEMMA ExposedElse ==
  ASSUME KeysReadBack, TypeInv, RowInv, [Next]_vars,
         \A s \in Sessions : ~Reading(s), NEW e \in Exposed'
  PROVE  \/ e \in Exposed
         \/ InSession /\ Leaves /\ e \in {Left + 1, Left + 2}
            /\ (GivesUp => e = Left + 1)
<1>0. /\ e \in 1..MaxRows /\ MaxRows \in Nat /\ ~Settled(e)'
      /\ Left \in Nat /\ Entered \in Nat /\ Passed \in Nat
      /\ /\ ~(Left < e /\ e <= Entered)
         /\ e <= Left \/ e <= Passed \/ \E t \in Others : e <= Savable(reader[t])
         => e \in Exposed
  BY ExposedBefore
<1>1. PICK l, h, q \in Nat :
        /\ l = Left' /\ h = Entered' /\ q = Passed'
        /\ ~(l < e /\ e <= h)
        /\ e <= l \/ e <= q \/ \E t \in Others' : e <= Savable(reader'[t])
  BY ExposedBefore
<1>2. /\ PlaceOK /\ PlaceOK' /\ SnapTypes /\ ReaderInv /\ HandInv /\ BusyInv
      /\ EngineTypeOK /\ InHand /\ SnapshotOnly
  BY RowInvStep, TopStep, Zenon DEF RowInv, BaseInv, TypeInv
<1>3. UNCHANGED <<cursor, done>> => q = Passed
  BY <1>1, PassedKept
<1>4. ASSUME l = Left, h = Entered, q = Passed,
             \A t \in Others' : t \in Others /\ reader'[t] = reader[t]
      PROVE  e \in Exposed
  BY <1>0, <1>1, <1>4
<1>5. ASSUME UNCHANGED <<sess, reader, cursor, done, phase, cur>>
      PROVE  e \in Exposed
  <2>1. l = Left /\ h = Entered
    BY <1>1, <1>5 DEF Left, Entered, Live
  <2>2. Others' = Others
    BY <1>5 DEF Others, InSession
  <2>3. QED
    BY <1>3, <1>4, <1>5, <2>1, <2>2
<1>6. ASSUME ~InSession, ~InSession', UNCHANGED <<reader, cursor, done>>
      PROVE  e \in Exposed
  <2>1. l = Left /\ h = Entered
    BY <1>1, <1>2, <1>6 DEF PlaceOK
  <2>2. Others' = Others
    BY <1>6 DEF Others
  <2>3. QED
    BY <1>3, <1>4, <1>6, <2>1, <2>2
<1>7. ASSUME InSession
      PROVE  /\ sess \in Sessions /\ reader[sess] \in Readings /\ Sound(reader[sess])
             /\ Savable(reader[sess]) \in Nat /\ Entered = Taken(reader[sess])
             /\ Entered <= Left + 2 /\ Savable(reader[sess]) <= Left + 2
             /\ phase = "snapshot" =>
                  /\ Left = IF reader[sess].fw # 0 THEN reader[sess].fw - 1
                            ELSE Taken(reader[sess])
                  /\ Entered <= Left + 1 /\ Savable(reader[sess]) <= Left + 1
             /\ phase # "snapshot" => Left = cur - 1
  <2>1. sess \in Sessions /\ reader[sess] \in Readings /\ Sound(reader[sess])
    BY <1>2, <1>7 DEF SnapshotOnly, SnapTypes, ReaderInv
  <2>2. Savable(reader[sess]) \in Nat
    BY <2>1, RowFacts
  <2>3. QED
    BY <1>2, <1>7, <2>1, <2>2 DEF PlaceOK
<1>8. ASSUME InSession, ~InSession', UNCHANGED <<sess, reader, cursor, done>>
      PROVE  e \in Exposed \/ (Left < e /\ e <= Entered)
             \/ (Left < e /\ e <= Savable(reader[sess]))
  <2>1. l = 0 /\ h = 0 /\ q = Passed
    BY <1>1, <1>2, <1>3, <1>8 DEF PlaceOK
  <2>2. e <= Passed \/ \E t \in Sessions : e <= Savable(reader[t])
    BY <1>0, <1>1, <1>8, <2>1 DEF Others
  <2>3. e <= Passed \/ e <= Savable(reader[sess])
        \/ \E t \in Others : e <= Savable(reader[t])
    BY <1>8, <2>2 DEF Others
  <2>4. QED
    BY <1>0, <2>3
<1>9. CASE Alone
  <2>1. Stays \/ Publishes \/ Settles \/ Quits \/ Between
    BY <1>2, <1>9, AlonePhases
  <2>2. UNCHANGED <<sess, reader, cursor, done>>
    BY <1>9 DEF Alone, snapVars
  <2>3. CASE Stays
    BY <1>5, <2>2, <2>3 DEF Stays
  <2>4. CASE Publishes
    <3>1. InSession /\ InSession' /\ phase # "snapshot" /\ phase' # "snapshot"
          /\ cur' = cur
      BY <2>4 DEF Publishes, InSession
    <3>2. h = Entered /\ l = Left
      BY <1>1, <1>2, <2>2, <3>1 DEF PlaceOK
    <3>3. Others' = Others
      BY <2>2, <3>1 DEF Others
    <3>4. QED
      BY <1>3, <1>4, <2>2, <3>2, <3>3
  <2>5. CASE Settles
    <3>1. /\ InSession /\ InSession' /\ phase \in {"transform", "publishing"}
          /\ phase' = "snapshot" /\ Settled(cur)'
      BY <2>5 DEF Settles, InSession
    <3>2. h = Entered
      BY <1>1, <1>2, <2>2, <3>1 DEF PlaceOK
    <3>3. cur \in Nat /\ Left = cur - 1 /\ l = cur
      <4>1. cur \in 1..MaxRows
        BY <1>2, <3>1, Sizes DEF InHand, Processing, Sized
      <4>2. l = IF reader[sess].fw # 0 THEN reader[sess].fw - 1 ELSE Taken(reader[sess])
        BY <1>1, <1>2, <2>2, <3>1 DEF PlaceOK
      <4>3. l = cur
        BY <1>2, <3>1, <4>2 DEF HandInv
      <4>4. QED
        BY <1>7, <3>1, <4>1, <4>3
    <3>4. e # cur
      <4>1. CASE e = cur
        <5>1. cur' = cur
          BY <2>5 DEF Settles
        <5>2. Settled(e)'
          BY <3>1, <4>1, <5>1, Zenon DEF Settled
        <5>3. QED
          BY <1>0, <5>2
      <4>2. QED
        BY <4>1
    <3>5. Others' = Others /\ q = Passed
      BY <1>3, <2>2, <3>1 DEF Others
    <3>6. ~(Left < e /\ e <= Entered)
      BY <1>0, <1>1, <3>2, <3>3, <3>4
    <3>7. e <= l => e <= Left
      BY <1>0, <3>3, <3>4
    <3>8. QED
      BY <1>0, <1>1, <2>2, <3>5, <3>6, <3>7
  <2>6. CASE Quits
    <3>1. InSession /\ ~InSession'
      BY <2>6 DEF Quits, InSession
    <3>2. e \in Exposed \/ (Left < e /\ e <= Left + 2)
      BY <1>0, <1>7, <1>8, <2>2, <3>1
    <3>3. ~GivesUp
      BY <2>6, Kinds DEF CutsShort, Quits
    <3>4. QED
      BY <1>0, <1>9, <2>6, <3>1, <3>2, <3>3 DEF Leaves
  <2>7. CASE Between
    BY <1>6, <2>2, <2>7 DEF Between, InSession
  <2>8. QED
    BY <2>1, <2>3, <2>4, <2>5, <2>6, <2>7
<1>10. CASE DialsDone
  <2>1. CASE phase = "dialing" /\ phase' = "closing" /\ UNCHANGED snapVars
    BY <1>6, <2>1 DEF InSession, snapVars
  <2>2. CASE Enters
    <3>1. ~InSession /\ InSession' /\ sess' = FreeSession /\ FreeSession \in Sessions
      BY <1>2, <2>2, FreeSessionExists DEF Enters, InSession
    <3>2. \A t \in Sessions : t # FreeSession => reader'[t] = reader[t]
      BY <1>2, <2>2, <3>1 DEF Enters, SnapTypes
    <3>3. \A t \in Others' : t \in Others /\ reader'[t] = reader[t]
      BY <3>1, <3>2 DEF Others
    <3>4. l = 0 /\ h = 0
      <4>1. reader'[sess'] = [NoReader EXCEPT !.at = "check"] /\ phase' = "snapshot"
        BY <1>2, <2>2, <3>1 DEF Enters, SnapTypes
      <4>2. reader'[sess'].at = "check"
        BY <4>1 DEF NoReader
      <4>3. QED
        BY <1>1, <4>2 DEF Left, Entered, Live
    <3>5. Left = 0 /\ Entered = 0
      BY <1>2, <3>1 DEF PlaceOK
    <3>6. QED
      BY <1>3, <1>4, <2>2, <3>3, <3>4, <3>5 DEF Enters
  <2>3. QED
    BY <1>10, <2>1, <2>2, Kinds
<1>11. CASE HandOver
  <2>1. Hands /\ InSession /\ InSession' /\ sess' = sess /\ sess \in Sessions
    BY <1>2, <1>11, Kinds DEF Hands, InSession, SnapshotOnly
  <2>2. /\ \A t \in Sessions : t # sess => reader'[t] = reader[t]
        /\ reader'[sess].at = reader[sess].at /\ reader'[sess].pos = reader[sess].pos
    BY <1>2, <2>1 DEF Hands, SnapTypes, Readings
  <2>3. \A t \in Others' : t \in Others /\ reader'[t] = reader[t]
    BY <2>1, <2>2 DEF Others
  <2>4. h = Entered
    <3>1. h = Taken(reader'[sess])
      BY <1>1, <1>2, <2>1 DEF PlaceOK
    <3>2. QED
      BY <1>7, <2>1, <2>2, <3>1 DEF Taken
  <2>5. l = Left
    <3>1. l = cur' - 1 /\ cur' = reader[sess].fw /\ reader[sess].fw # 0
      BY <1>1, <1>2, <2>1 DEF PlaceOK, Hands
    <3>2. QED
      BY <1>7, <2>1, <3>1 DEF Hands
  <2>6. QED
    BY <1>3, <1>4, <2>1, <2>3, <2>4, <2>5 DEF Hands
<1>12. CASE SnapshotEnds
  <2>1. Ends /\ InSession /\ ~InSession' /\ phase = "snapshot"
    BY <1>12, Kinds DEF Ends, InSession
  <2>2. UNCHANGED <<sess, reader, cursor, done>> /\ reader[sess].at = "ended"
    BY <2>1 DEF Ends, snapVars
  <2>3. Left = Entered /\ Savable(reader[sess]) = 0
    BY <1>7, <2>1, <2>2 DEF Sound, Savable
  <2>4. QED
    BY <1>0, <1>8, <2>1, <2>2, <2>3
<1>13. CASE GivesUp
  <2>1. CutsShort /\ InSession /\ ~InSession' /\ phase = "snapshot"
    BY <1>13, Kinds DEF CutsShort, InSession
  <2>2. UNCHANGED <<sess, reader, cursor, done>>
    BY <2>1 DEF CutsShort, snapVars
  <2>3. e \in Exposed \/ (Left < e /\ e <= Left + 1)
    BY <1>0, <1>7, <1>8, <2>1, <2>2
  <2>4. QED
    BY <1>0, <1>13, <2>1, <2>3 DEF Leaves
<1>14. CASE Close
  BY <1>6, <1>14, Kinds DEF Closes, InSession
<1>15. CASE Dies
  <2>1. ~InSession' /\ UNCHANGED <<cursor, done>> /\ q = Passed
    BY <1>3, <1>15, Kinds DEF Dies, InSession
  <2>2. \A t \in Sessions : Savable(reader'[t]) = 0
    BY <1>15 DEF Dies, Savable, NoReader
  <2>3. l = 0 /\ h = 0
    BY <1>1, <1>2, <2>1 DEF PlaceOK
  <2>4. e <= Passed
    BY <1>0, <1>1, <2>1, <2>2, <2>3 DEF Others
  <2>5. CASE Left < e /\ e <= Entered
    <3>1. InSession
      BY <1>0, <1>2, <2>5 DEF PlaceOK
    <3>2. e \in {Left + 1, Left + 2}
      BY <1>0, <1>7, <2>5, <3>1
    <3>3. ~GivesUp
      BY <1>15, Kinds DEF CutsShort
    <3>4. QED
      BY <1>15, <3>1, <3>2, <3>3 DEF Leaves
  <2>6. QED
    BY <1>0, <2>4, <2>5
<1>16. CASE UNCHANGED vars
  BY <1>5, <1>16 DEF vars, engineVars, snapVars
<1> QED
  BY <1>9, <1>10, <1>11, <1>12, <1>13, <1>14, <1>15, <1>16, StepCases, Zenon

(* When runs begin and end, and what that is charged to.                   *)
LEMMA RunStep ==
  ASSUME TypeInv, [Next]_vars
  PROVE  /\ InSession' /\ ~InSession => ~CutShort /\ phase' = "snapshot"
         /\ ~InSession /\ ~InSession' => Paid <= Paid'
         /\ InSession /\ Leaves =>
              ~InSession' /\ (Failing \/ CutShort' \/ faults' = faults + 1)
<1>0. EngineTypeOK /\ InHand /\ SnapshotOnly /\ SnapTypes
  BY TypeParts, Zenon DEF TypeInv
<1>1. EngineStep \/ Panic
  BY <1>0, EngineSteps DEF TypeInv
<1>2. /\ PaidOK /\ PaidOK'
      /\ CutShort => Paid = faults + 1
      /\ ~CutShort => Paid = faults
      /\ CutShort' => Paid' = faults' + 1
      /\ (CutShort => CutShort') => Paid <= Paid'
  BY <1>0, <1>1, PaidStep
<1> DEFINE Goal ==
      /\ InSession' /\ ~InSession => ~CutShort /\ phase' = "snapshot"
      /\ ~InSession /\ ~InSession' => Paid <= Paid'
      /\ InSession /\ Leaves =>
           ~InSession' /\ (Failing \/ CutShort' \/ faults' = faults + 1)
<1>3. Leaves => \/ Alone /\ Quits
                \/ phase = "snapshot" /\ phase' = "capture" /\ cancelled'
                \/ Dies
  BY Kinds, Zenon DEF Leaves, CutsShort
<1>4. Quits => ~InSession' /\ (Failing \/ CutShort' \/ faults' = faults + 1)
  BY DEF Quits, InSession
<1>5. phase' = "capture" /\ cancelled' => ~InSession' /\ CutShort'
  <2>1. phase' = "capture" => ~InSession'
    BY DEF InSession
  <2>2. phase' = "capture" /\ cancelled' => CutShort'
    BY Zenon DEF CutShort
  <2>3. QED
    BY <2>1, <2>2
<1>6. Dies => /\ ~InSession'
              /\ CutShort' \/ faults' = faults + 1
  <2>1. Dies => \/ phase' = "connect" /\ faults' = faults + 1
                \/ phase' = "panicked"
    BY Kinds
  <2>2. phase' = "panicked" => CutShort'
    BY Zenon DEF CutShort
  <2>3. phase' \in {"connect", "panicked"} => ~InSession'
    BY DEF InSession
  <2>4. QED
    BY <2>1, <2>2, <2>3
<1>7. InSession /\ Leaves =>
        ~InSession' /\ (Failing \/ CutShort' \/ faults' = faults + 1)
  BY <1>3, <1>4, <1>5, <1>6, Zenon
<1>8. InSession' /\ ~InSession => ~CutShort /\ phase' = "snapshot"
  <2>1. ASSUME InSession', ~InSession
        PROVE  DialsDone
    <3>1. Alone => FALSE
      <4>1. Alone => Stays \/ Publishes \/ Settles \/ Quits \/ Between
        BY <1>0, AlonePhases
      <4>2. QED
        BY <2>1, <4>1 DEF Stays, Publishes, Settles, Quits, Between, InSession
    <3>2. ~HandOver /\ ~SnapshotEnds /\ ~GivesUp /\ ~Close /\ ~Dies
      BY <1>6, <2>1, Kinds DEF Hands, Ends, CutsShort, Closes, InSession
    <3>3. (\E s \in Sessions : Reading(s)) \/ UNCHANGED vars => UNCHANGED phase
      BY ReadingAside, Zenon DEF calmVars, vars, engineVars
    <3>4. ~(UNCHANGED phase)
      BY <2>1 DEF InSession
    <3>5. QED
      BY <3>1, <3>2, <3>3, <3>4, StepCases
  <2>2. ASSUME DialsDone, InSession' PROVE ~CutShort /\ phase' = "snapshot"
    BY <2>2, Kinds DEF Enters, InSession, CutShort
  <2>3. QED
    BY <2>1, <2>2
<1>9. ASSUME ~InSession, ~InSession'
      PROVE  Paid <= Paid'
  <2>1. CASE CutShort => CutShort'
    BY <1>2, <2>1
  <2>2. CASE Alone
    <3>1. Stays \/ Publishes \/ Settles \/ Quits \/ Between
      BY <1>0, <2>2, AlonePhases
    <3>2. QED
      BY <2>1, <3>1, CutShortStays
  <2>3. CASE SnapshotEnds \/ GivesUp \/ HandOver \/ DialsDone \/ Close
    BY <2>1, <2>3, CutShortStays
  <2>4. CASE \E s \in Sessions : Reading(s)
    <3>1. UNCHANGED <<phase, cancelled>>
      BY <2>4, ReadingAside DEF calmVars
    <3>2. CutShort => CutShort'
      BY <3>1, Zenon DEF CutShort
    <3>3. QED
      BY <2>1, <3>2
  <2>5. CASE UNCHANGED vars
    <3>1. UNCHANGED <<phase, cancelled>>
      BY <2>5 DEF vars, engineVars
    <3>2. CutShort => CutShort'
      BY <3>1, Zenon DEF CutShort
    <3>3. QED
      BY <2>1, <3>2
  <2>6. CASE Dies
    <3>1. CASE CutShort'
      BY <2>1, <3>1
    <3>2. CASE faults' = faults + 1
      <4>1. PICK q : q = Paid'
        OBVIOUS
      <4>2. q \in Nat /\ faults + 1 <= q /\ faults \in Nat
        BY <1>2, <3>2, <4>1 DEF PaidOK
      <4>3. Paid <= q
        BY <1>2, <4>2
      <4>4. QED
        BY <4>1, <4>3
    <3>3. QED
      BY <1>6, <2>6, <3>1, <3>2
  <2>7. QED
    BY <2>2, <2>3, <2>4, <2>5, <2>6, StepCases, Zenon
<1> QED
  BY <1>7, <1>8, <1>9, Zenon

LEMMA ExposedFinite == IsFiniteSet(Exposed) /\ IsFiniteSet(Fresh)
<1>1. IsFiniteSet(1..MaxRows) /\ Events = 1..MaxRows
  BY Sizes, FS_Interval DEF Sized
<1>2. Exposed \subseteq 1..MaxRows /\ Fresh \subseteq Sessions
  BY <1>1 DEF Exposed, Fresh, Others
<1> QED
  BY <1>1, <1>2, SessionsFinite, Fewer

(* Two rows at most for every failure, and one of the two is granted when  *)
(* a session that was cut short has yet to find out where to resume.       *)
LEMMA CountInvStep ==
  ASSUME KeysReadBack, TypeInv, RowInv, CountInv, [Next]_vars
  PROVE  CountInv'
<1>0. EngineTypeOK /\ InHand /\ SnapTypes /\ ReaderInv /\ FreshInv
  BY TypeParts, Zenon DEF TypeInv, RowInv
<1>1. EngineStep \/ Panic
  BY <1>0, EngineSteps DEF TypeInv
<1>2. /\ PaidOK /\ PaidOK'
      /\ faults' = faults \/ faults' = faults + 1
      /\ ~CutShort => Paid = faults
      /\ CutShort' => Paid' = faults' + 1
  BY <1>0, <1>1, PaidStep
<1>3. /\ Failing' => Failing \/ faults' = faults + 1
      /\ Failing' => phase' = "publishing"
  BY <1>0, <1>1, FailingStep, InHandStep DEF InHand, Failing
<1>4. /\ InSession' /\ ~InSession => ~CutShort /\ phase' = "snapshot"
      /\ ~InSession /\ ~InSession' => Paid <= Paid'
      /\ InSession /\ Leaves =>
           ~InSession' /\ (Failing \/ CutShort' \/ faults' = faults + 1)
  BY RunStep
<1>5. FreshInv' /\ FreshFew
  BY FreshInvStep, Zenon DEF RowInv
<1>6. /\ IsFiniteSet(Exposed) /\ IsFiniteSet(Fresh)
      /\ Cardinality(Exposed) \in Nat /\ Cardinality(Fresh) \in Nat
  BY ExposedFinite, FS_CardinalityType
<1>7. PICK n \in Nat : n = Cardinality(Exposed)
  BY <1>6
<1>8. PICK k \in Nat : k = Cardinality(Fresh)
  BY <1>6
<1>9. PICK f \in Nat : f = faults'
  BY <1>2 DEF PaidOK
<1>10. PICK q \in Nat : q = Paid'
  BY <1>2 DEF PaidOK
<1>11. faults \in Nat /\ Paid \in Nat /\ faults <= f /\ f <= q
       /\ (CutShort' => q = f + 1)
  <2>1. /\ faults \in Nat /\ Paid \in Nat /\ f <= q
        /\ f = faults \/ f = faults + 1
        /\ (CutShort' => q = f + 1)
    BY <1>2, <1>9, <1>10, Zenon DEF PaidOK
  <2>2. QED
    BY <2>1
<1>12. /\ InSession => n <= 2 * faults /\ (Failing => n + 2 <= 2 * faults)
       /\ ~InSession => n + k <= 2 * Paid
  BY <1>7, <1>8, <1>11 DEF CountInv
<1>13. InSession => Fresh = {}
  BY <1>0 DEF FreshInv, InSession, CutShort
(* Nothing new is exposed.                                                 *)
<1>14. ASSUME Exposed' \subseteq Exposed, Fresh' \subseteq Fresh
       PROVE  CountInv'
  <2>1. PICK n1 \in Nat : n1 = Cardinality(Exposed') /\ n1 <= n
    BY <1>6, <1>7, <1>14, Fewer
  <2>2. PICK k1 \in Nat : k1 = Cardinality(Fresh') /\ k1 <= k
    BY <1>6, <1>8, <1>14, Fewer
  <2>3. CASE InSession'
    <3>1. n1 <= 2 * f /\ (Failing' => n1 + 2 <= 2 * f)
      <4>1. CASE InSession
        BY <1>3, <1>9, <1>11, <1>12, <2>1, <4>1
      <4>2. CASE ~InSession
        BY <1>2, <1>3, <1>4, <1>11, <1>12, <2>1, <2>3, <4>2
      <4>3. QED
        BY <4>1, <4>2
    <3>2. QED
      BY <1>9, <2>1, <2>3, <3>1 DEF CountInv
  <2>4. CASE ~InSession'
    <3>1. n1 + k1 <= 2 * q
      <4>1. CASE InSession
        <5>1. k1 = 0
          BY <1>13, <1>14, <2>2, <4>1, FS_EmptySet
        <5>2. QED
          BY <1>11, <1>12, <2>1, <4>1, <5>1
      <4>2. CASE ~InSession
        <5>1. Paid <= q
          BY <1>4, <1>10, <2>4, <4>2
        <5>2. QED
          BY <1>11, <1>12, <2>1, <2>2, <4>2, <5>1
      <4>3. QED
        BY <4>1, <4>2
    <3>2. QED
      BY <1>10, <2>1, <2>2, <2>4, <3>1 DEF CountInv
  <2>5. QED
    BY <2>3, <2>4
(* A run ends, and leaves behind up to two.                                *)
<1>15. ASSUME InSession, Leaves,
              Cardinality(Exposed') \in Nat, Cardinality(Fresh') \in Nat,
              Cardinality(Exposed') + Cardinality(Fresh') <= n + 2
       PROVE  CountInv'
  <2>1. ~InSession' /\ (Failing \/ CutShort' \/ faults' = faults + 1)
    BY <1>4, <1>15
  <2>2. n + 2 <= 2 * q
    <3>1. CASE Failing
      BY <1>11, <1>12, <1>15, <3>1
    <3>2. CASE CutShort'
      BY <1>11, <1>12, <1>15, <3>2
    <3>3. CASE faults' = faults + 1
      BY <1>9, <1>11, <1>12, <1>15, <3>3
    <3>4. QED
      BY <2>1, <3>1, <3>2, <3>3
  <2>3. PICK m \in Nat : m = Cardinality(Exposed') + Cardinality(Fresh')
    BY <1>15
  <2>4. m <= 2 * q
    BY <1>11, <1>15, <2>2, <2>3
  <2>5. QED
    BY <1>10, <2>1, <2>3, <2>4, Zenon DEF CountInv
<1>16. CASE \E s \in Sessions : Reading(s)
  <2>1. PICK s \in Sessions : Reading(s)
    BY <1>16
  <2>2. UNCHANGED <<phase, sess>>
    BY <2>1, ReadingAside DEF calmVars
  <2>3. Fresh' \subseteq Fresh
    BY <1>5, <2>2, Kinds DEF FreshFew, CutsShort
  <2>4. CASE s \in Others /\ Opens(reader[s], reader'[s])
    <3>1. Exposed' \subseteq Exposed \cup {Taken(reader'[s]) + 1}
      BY <2>1, <2>4, ExposedAside
    <3>2. s \in Fresh
      BY <2>4 DEF Opens, Fresh
    <3>3. Fresh = {s} /\ ~InSession /\ ~InSession'
      BY <1>0, <1>13, <2>2, <3>2 DEF FreshInv, InSession
    <3>4. Fresh' = {}
      <4>1. reader'[s].at \notin {"check", "open"}
        BY <2>4 DEF Opens
      <4>2. s \notin Fresh'
        BY <4>1 DEF Fresh
      <4>3. QED
        BY <2>3, <3>3, <4>2
    <3>5. k = 1 /\ Cardinality(Fresh') = 0
      BY <1>8, <3>3, <3>4, FS_Singleton, FS_EmptySet
    <3>6. PICK n1 \in Nat : n1 = Cardinality(Exposed') /\ n1 <= n + 1
      BY <1>6, <1>7, <3>1, OneMore
    <3>7. n1 <= 2 * q
      <4>1. Paid <= q
        BY <1>4, <1>10, <3>3
      <4>2. QED
        BY <1>11, <1>12, <3>3, <3>5, <3>6, <4>1
    <3>8. QED
      BY <1>10, <3>3, <3>5, <3>6, <3>7 DEF CountInv
  <2>5. CASE ~(s \in Others /\ Opens(reader[s], reader'[s]))
    <3>1. Exposed' \subseteq Exposed
      BY <2>1, <2>5, ExposedAside, ExposedReading
    <3>2. QED
      BY <1>14, <2>3, <3>1
  <2>6. QED
    BY <2>4, <2>5
<1>17. CASE \A s \in Sessions : ~Reading(s)
  <2>1. CASE InSession /\ Leaves /\ GivesUp
    <3>1. Exposed' \subseteq Exposed \cup {Left + 1}
      BY <1>17, <2>1, ExposedElse
    <3>2. PICK n1 \in Nat : n1 = Cardinality(Exposed') /\ n1 <= n + 1
      BY <1>6, <1>7, <3>1, OneMore
    <3>3. PICK k1 \in Nat : k1 = Cardinality(Fresh') /\ k1 <= 1
      <4>1. PICK s : Fresh' \subseteq {} \cup {s}
        BY <1>5 DEF FreshInv
      <4>2. QED
        <5>1. IsFiniteSet({}) /\ Cardinality({}) = 0
          BY FS_EmptySet
        <5>2. /\ Cardinality(Fresh') \in Nat
              /\ Cardinality(Fresh') <= Cardinality({}) + 1
          BY <4>1, <5>1, OneMore
        <5>3. QED
          BY <5>1, <5>2
    <3>4. QED
      BY <1>15, <2>1, <3>2, <3>3
  <2>2. CASE InSession /\ Leaves /\ ~GivesUp
    <3>1. Exposed' \subseteq (Exposed \cup {Left + 1}) \cup {Left + 2}
      BY <1>17, <2>2, ExposedElse
    <3>2. /\ IsFiniteSet(Exposed \cup {Left + 1})
          /\ Cardinality(Exposed \cup {Left + 1}) \in Nat
          /\ Cardinality(Exposed \cup {Left + 1}) <= n + 1
      BY <1>6, <1>7, OneMore
    <3>3. PICK n1 \in Nat : n1 = Cardinality(Exposed') /\ n1 <= n + 2
      <4>1. PICK m \in Nat : m = Cardinality(Exposed \cup {Left + 1})
        BY <3>2
      <4>2. /\ Cardinality(Exposed') \in Nat
            /\ Cardinality(Exposed') <= Cardinality(Exposed \cup {Left + 1}) + 1
        BY <3>1, <3>2, OneMore
      <4>3. PICK n1 \in Nat : n1 = Cardinality(Exposed')
        BY <4>2
      <4>4. m <= n + 1 /\ n1 <= m + 1
        BY <3>2, <4>1, <4>2, <4>3
      <4>5. n1 <= n + 2
        BY <4>4
      <4>6. QED
        BY <4>3, <4>5
    <3>4. Fresh' = {}
      BY <1>5, <1>13, <2>2 DEF FreshFew
    <3>5. Cardinality(Fresh') = 0
      BY <3>4, FS_EmptySet
    <3>6. QED
      BY <1>15, <2>2, <3>3, <3>5
  <2>3. CASE ~(InSession /\ Leaves)
    <3>1. Exposed' \subseteq Exposed
      BY <1>17, <2>3, ExposedElse
    <3>2. GivesUp => InSession /\ Leaves
      BY Kinds DEF CutsShort, InSession, Leaves
    <3>3. QED
      BY <1>5, <1>14, <2>3, <3>1, <3>2 DEF FreshFew
  <2>4. QED
    BY <2>1, <2>2, <2>3
<1> QED
  BY <1>16, <1>17

-----------------------------------------------------------------------------
IInv == TypeInv /\ RowInv /\ TopInv /\ CountInv

LEMMA StartsSound ==
  ASSUME Init
  PROVE  RowInv /\ TopInv /\ CountInv
<1>1. /\ phase = "connect" /\ faults = 0 /\ reader = [s \in Sessions |-> NoReader]
      /\ cursor = 0 /\ done = FALSE /\ top = 0
  BY Zenon DEF Init, EngineInit
<1>2. ~InSession /\ ~Live /\ Left = 0 /\ Passed = 0 /\ Entered = 0
  BY <1>1 DEF InSession, Live, Left, Entered, Passed
<1>3. \A s \in Sessions : /\ reader[s].at = "none" /\ Savable(reader[s]) = 0
                          /\ Sound(reader[s])
  BY <1>1 DEF Savable, Sound, NoReader
<1>4. RowInv
  BY <1>1, <1>3 DEF RowInv, ReaderInv, HandInv, FreshInv, Fresh, Others, EndInv, Complete
<1>5. TopInv
  BY <1>1, <1>2, <1>3 DEF TopInv
<1>6. Exposed = {} /\ Fresh = {}
  BY <1>2, <1>3, Sizes DEF Exposed, Reached, Window, Fresh, Others, Sized
<1>7. Cardinality(Exposed) = 0 /\ Cardinality(Fresh) = 0
  BY <1>6, FS_EmptySet
<1>8. Paid \in Nat
  BY <1>1 DEF Paid
<1> QED
  BY <1>2, <1>4, <1>5, <1>7, <1>8 DEF CountInv

(* What the sessions of a snapshot do to the rows, and what that costs at  *)
(* most, over all the failures and restarts: the strengthening of the      *)
(* theorems below.                                                         *)
THEOREM CountInvariant ==
  ASSUME KeysReadBack
  PROVE  Spec => []IInv
<1>1. Init => RowInv /\ TopInv /\ CountInv
  BY StartsSound
<1>2. TypeInv /\ RowInv /\ TopInv /\ CountInv /\ [Next]_vars =>
        (RowInv /\ TopInv /\ CountInv)'
  BY RowInvStep, TopInvStep, CountInvStep
<1> QED
  BY <1>1, <1>2, TypeInvariant, PTL DEF Spec, IInv

(* What the bound on Exposed says in each phase.                           *)
LEMMA ExposedBound ==
  ASSUME IInv
  PROVE  /\ EngineTypeOK /\ InHand /\ SnapTypes /\ SnapshotOnly /\ PlaceOK
         /\ faults \in Nat /\ MaxRows \in Nat /\ Events = 1..MaxRows
         /\ Left \in 0..MaxRows /\ Entered \in 0..MaxRows /\ Passed \in 0..MaxRows
         /\ IsFiniteSet(Exposed) /\ Cardinality(Exposed) \in Nat
         /\ InSession => Cardinality(Exposed) <= 2 * faults
         /\ Cardinality(Exposed) <= 2 * (faults + 1)
<1>1. /\ EngineTypeOK /\ InHand /\ SnapTypes /\ SnapshotOnly
      /\ BaseInv /\ RowInv /\ CountInv
  BY TypeParts, Zenon DEF IInv, TypeInv, BaseInv
<1>2. PlaceOK
  BY <1>1, PlacesHold, Zenon DEF RowInv
<1>3. MaxRows \in Nat /\ Events = 1..MaxRows /\ faults \in Nat
  BY <1>1, Sizes DEF Sized, EngineTypeOK
<1>4. Left \in 0..MaxRows /\ Entered \in 0..MaxRows /\ Passed \in 0..MaxRows
  BY <1>1, <1>2, PassedKept DEF PlaceOK, Rows0
<1>5. /\ IsFiniteSet(Exposed) /\ Cardinality(Exposed) \in Nat
      /\ Cardinality(Fresh) \in Nat
  BY ExposedFinite, FS_CardinalityType
<1>6. PICK n \in Nat : n = Cardinality(Exposed)
  BY <1>5
<1>7. PICK k \in Nat : k = Cardinality(Fresh)
  BY <1>5
<1>8. CASE InSession
  <2>1. n <= 2 * faults
    BY <1>1, <1>3, <1>6, <1>8 DEF CountInv
  <2>2. QED
    BY <1>1, <1>2, <1>3, <1>4, <1>5, <1>6, <2>1 
<1>9. CASE ~InSession
  <2>1. n + k <= 2 * Paid
    BY <1>1, <1>6, <1>7, <1>9 DEF CountInv
  <2>2. Paid = faults \/ Paid = faults + 1
    BY <1>3 DEF Paid
  <2>3. n <= 2 * (faults + 1)
    BY <1>3, <2>1, <2>2
  <2>4. QED
    BY <1>1, <1>2, <1>3, <1>4, <1>5, <1>6, <1>9, <2>3
<1> QED
  BY <1>8, <1>9

(* snapshot.go:52-59: the cursor and the done marker pass two rows that    *)
(* were not settled for every failure, and two more, whatever the size of  *)
(* the table and of the batches, and however often runs and processes fail.*)
THEOREM LossIsBounded ==
  ASSUME KeysReadBack
  PROVE  Spec => []LossBounded
<1>1. ASSUME IInv PROVE LossBounded
  <2>0. /\ PlaceOK /\ faults \in Nat /\ MaxRows \in Nat /\ Events = 1..MaxRows
        /\ Left \in 0..MaxRows /\ Entered \in 0..MaxRows /\ Passed \in 0..MaxRows
        /\ IsFiniteSet(Exposed) /\ Cardinality(Exposed) \in Nat
        /\ InSession => Cardinality(Exposed) <= 2 * faults
        /\ Cardinality(Exposed) <= 2 * (faults + 1)
    BY <1>1, ExposedBound
  <2> DEFINE Lost == {e \in 1..Passed : Unsettled(e)}
  <2>1. PICK n \in Nat : n = Cardinality(Exposed)
    BY <2>0
  <2>2. CASE ~InSession
    <3>1. Left = 0 /\ Entered = 0
      BY <2>0, <2>2 DEF PlaceOK
    <3>2. Lost \subseteq Exposed
      BY <2>0, <3>1 DEF Exposed, Reached, Window
    <3>3. PICK m \in Nat : m = Cardinality(Lost) /\ m <= n
      BY <2>0, <2>1, <3>2, Fewer
    <3>4. m <= 2 * (faults + 1)
      BY <2>0, <2>1, <3>3
    <3>5. QED
      BY <3>3, <3>4 DEF LossBounded
  <2>3. CASE InSession
    <3>1. Entered <= Left + 2
      BY <2>0, <2>3 DEF PlaceOK
    <3>2. Lost \subseteq (Exposed \cup {Left + 1}) \cup {Left + 2}
      BY <2>0, <3>1 DEF Exposed, Reached, Window
    <3>3. PICK k \in Nat : k = Cardinality(Exposed \cup {Left + 1}) /\ k <= n + 1
      BY <2>0, <2>1, OneMore
    <3>4. IsFiniteSet(Exposed \cup {Left + 1})
      BY <2>0, OneMore
    <3>5. PICK m \in Nat : m = Cardinality(Lost) /\ m <= k + 1
      BY <3>2, <3>3, <3>4, OneMore
    <3>6. m <= 2 * (faults + 1)
      BY <2>0, <2>1, <2>3, <3>3, <3>5
    <3>7. QED
      BY <3>5, <3>6 DEF LossBounded
  <2>4. QED
    BY <2>2, <2>3
<1> QED
  BY <1>1, CountInvariant, PTL

(* Order: when a row first reaches a producer, the rows before it in the   *)
(* order of the keys have all been settled, but for two per failure, over  *)
(* all the sessions there have been.                                       *)
THEOREM RowsStayInOrder ==
  ASSUME KeysReadBack
  PROVE  Spec => KeyOrder
<1>1. ASSUME IInv, [Next]_vars,
             NEW p \in Producers, NEW e \in delivered'[p] \ delivered[p]
      PROVE  Cardinality({d \in 1..(e - 1) : Unsettled(d)}) <= 2 * faults
  <2>0. /\ EngineTypeOK /\ InHand /\ PlaceOK /\ faults \in Nat
        /\ MaxRows \in Nat /\ Events = 1..MaxRows /\ Left \in 0..MaxRows
        /\ IsFiniteSet(Exposed) /\ Cardinality(Exposed) \in Nat
        /\ InSession => Cardinality(Exposed) <= 2 * faults
    BY <1>1, ExposedBound
  <2> DEFINE Before == {d \in 1..(e - 1) : Unsettled(d)}
  <2>1. e = cur /\ pub[p] = "running"
    <3>1. EngineStep \/ Panic
      BY <1>1, EngineSteps DEF IInv, TypeInv
    <3>2. QED
      BY <1>1, <2>0, <3>1, DeliveredStep
  <2>2. phase = "publishing" /\ InSession /\ cur \in Events
    BY <2>0, <2>1 DEF InHand, InSession, Processing
  <2>3. Left = cur - 1
    BY <2>0, <2>2 DEF PlaceOK
  <2>4. Before \subseteq Exposed
    BY <2>0, <2>1, <2>2, <2>3 DEF Exposed, Reached, Window
  <2>5. PICK n \in Nat : n = Cardinality(Exposed) /\ n <= 2 * faults
    BY <2>0, <2>2
  <2>6. PICK m \in Nat : m = Cardinality(Before) /\ m <= n
    BY <2>0, <2>4, <2>5, Fewer
  <2>7. m <= 2 * faults
    BY <2>0, <2>5, <2>6
  <2>8. QED
    BY <2>6, <2>7
<1>2. IInv /\ [Next]_vars =>
        [\A p \in Producers : \A e \in delivered'[p] \ delivered[p] :
           Cardinality({d \in 1..(e - 1) : Unsettled(d)}) <= 2 * faults]_vars
  BY <1>1
<1> QED
  BY <1>2, CountInvariant, PTL DEF Spec, KeyOrder

(* engine.go:100-104: streaming starts only when the whole table has been  *)
(* settled, but for two rows per failure, unless the context is done.      *)
THEOREM StreamWaitsForTable ==
  ASSUME KeysReadBack
  PROVE  Spec => []SnapshotBeforeStream
<1>1. Init => SnapshotBeforeStream
  BY DEF Init, EngineInit, SnapshotBeforeStream
<1>2. ASSUME IInv, SnapshotBeforeStream, [Next]_vars
      PROVE  SnapshotBeforeStream'
  <2>0. /\ EngineTypeOK /\ InHand /\ SnapTypes /\ SnapshotOnly /\ PlaceOK
        /\ faults \in Nat /\ MaxRows \in Nat /\ Events = 1..MaxRows
        /\ Left \in 0..MaxRows
        /\ IsFiniteSet(Exposed) /\ Cardinality(Exposed) \in Nat
        /\ InSession => Cardinality(Exposed) <= 2 * faults
    BY <1>2, ExposedBound
  <2> DEFINE Lost == {e \in Events : Unsettled(e)}
  <2>1. EngineStep \/ Panic
    BY <1>2, EngineSteps DEF IInv, TypeInv
  <2>2. PICK f \in Nat : f = faults' /\ faults <= f
    BY <2>0, <2>1, FaultsGrow
  <2>3. Lost' \subseteq Lost
    BY <2>0, <2>1, SettledStep DEF Unsettled
  <2>4. conf' = conf
    BY <1>2, TopStep DEF IInv
  <2>5. IsFiniteSet(Lost)
    <3>1. IsFiniteSet(Events) /\ Lost \subseteq Events
      BY <2>0, FS_Interval
    <3>2. QED
      BY <3>1, Fewer
  <2>6. ASSUME Cardinality(Lost) <= 2 * faults
        PROVE  SnapshotBeforeStream'
    <3>1. PICK n \in Nat : n = Cardinality(Lost) /\ n <= 2 * faults
      BY <2>5, <2>6, FS_CardinalityType
    <3>2. PICK m \in Nat : m = Cardinality(Lost') /\ m <= n
      BY <2>3, <2>5, <3>1, Fewer
    <3>3. m <= 2 * f
      BY <2>0, <2>2, <3>1, <3>2
    <3>4. QED
      BY <2>2, <3>2, <3>3 DEF SnapshotBeforeStream
  <2>7. ASSUME phase \in {"capture", "select"}, cancelled => cancelled'
        PROVE  SnapshotBeforeStream'
    <3>1. CASE cancelled \/ conf.mode = "never"
      BY <2>4, <2>7, <3>1, Zenon DEF SnapshotBeforeStream
    <3>2. CASE ~cancelled /\ conf.mode # "never"
      <4>1. Cardinality(Lost) <= 2 * faults
        BY <1>2, <2>7, <3>2, Zenon DEF SnapshotBeforeStream
      <4>2. QED
        BY <2>6, <4>1
    <3>3. QED
      BY <3>1, <3>2, Zenon
  <2>8. ASSUME phase' \notin {"capture", "select"}
        PROVE  SnapshotBeforeStream'
    BY <2>8 DEF SnapshotBeforeStream
  <2>9. CASE Alone
    <3>1. Stays \/ Publishes \/ Settles \/ Quits \/ Between
      BY <2>0, <2>9, AlonePhases
    <3>2. CASE Publishes \/ Settles \/ Quits
      BY <2>8, <3>2 DEF Publishes, Settles, Quits
    <3>3. CASE Stays \/ Between
      <4>1. phase' \in {"capture", "select"} => phase \in {"capture", "select"}
        BY <3>3 DEF Stays, Between
      <4>2. cancelled => cancelled'
        BY <3>3, Zenon DEF Stays, Between
      <4>3. QED
        BY <2>7, <2>8, <4>1, <4>2
    <3>4. QED
      BY <3>1, <3>2, <3>3
  <2>10. CASE DialsDone \/ HandOver \/ Close \/ Dies
    BY <2>8, <2>10, Kinds DEF Enters, Hands, Closes
  <2>11. CASE GivesUp
    <3>1. cancelled'
      BY <2>11, Kinds, Zenon DEF CutsShort
    <3>2. QED
      BY <3>1, Zenon DEF SnapshotBeforeStream
  <2>12. CASE SnapshotEnds
    <3>1. phase = "snapshot" /\ InSession /\ reader[sess].at = "ended"
      BY <2>12, Kinds DEF Ends, InSession
    <3>2. CASE phase' = "unwind" \/ conf.mode = "never"
      BY <2>4, <2>8, <3>2, Zenon DEF SnapshotBeforeStream
    <3>3. CASE ~reader[sess].failed /\ conf.mode # "never"
      <4>1. sess \in Sessions /\ Sound(reader[sess]) /\ Complete(reader[sess])
        BY <1>2, <2>0, <3>1 DEF SnapshotOnly, IInv, RowInv, ReaderInv, EndInv
      <4>2. reader[sess].pos = MaxRows \/ done
        BY <3>1, <3>3, <4>1, Zenon DEF Complete
      <4>3. Left = reader[sess].pos /\ Entered = reader[sess].pos
        BY <2>0, <3>1, <4>1 DEF PlaceOK, Sound, Taken
      <4>4. \A e \in Events : e <= Left \/ e <= Passed
        BY <2>0, <4>2, <4>3 DEF Passed
      <4>5. Lost \subseteq Exposed
        BY <2>0, <4>3, <4>4 DEF Exposed, Reached, Window
      <4>6. PICK n \in Nat : n = Cardinality(Exposed) /\ n <= 2 * faults
        BY <2>0, <3>1
      <4>7. PICK m \in Nat : m = Cardinality(Lost) /\ m <= n
        BY <2>0, <4>5, <4>6, Fewer
      <4>8. m <= 2 * faults
        BY <2>0, <4>6, <4>7
      <4>9. QED
        BY <2>6, <4>7, <4>8
    <3>4. QED
      BY <2>12, <3>2, <3>3, Kinds, Zenon DEF Ends
  <2>13. CASE (\E s \in Sessions : Reading(s)) \/ UNCHANGED vars
    <3>1. UNCHANGED <<phase, cancelled>>
      BY <2>13, ReadingAside, Zenon DEF calmVars, vars, engineVars
    <3>2. QED
      BY <2>7, <2>8, <3>1, Zenon
  <2>14. QED
    BY <1>2, <2>9, <2>10, <2>11, <2>12, <2>13, StepCases, Zenon
<1> QED
  BY <1>1, <1>2, CountInvariant, PTL DEF Spec

-----------------------------------------------------------------------------
(* The refinement, one kind of step at a time.                             *)
Near == {m \in 0..MaxRows : m <= top + 2}

PipelineFacts ==
  /\ top \in Nat /\ Left \in Nat /\ Entered \in Nat /\ Left <= top
  /\ MaxRows \in Nat /\ Left <= MaxRows /\ Entered <= MaxRows /\ Left <= Entered
  /\ Passed \in Near

LEMMA PipelineHolds ==
  ASSUME TypeInv, RowInv, TopInv
  PROVE  PipelineFacts /\ PlaceOK
<1>1. /\ EngineTypeOK /\ InHand /\ SnapTypes /\ SnapshotOnly /\ top \in Rows0
      /\ BaseInv
  BY TypeParts, Zenon DEF TypeInv, BaseInv
<1>2. PlaceOK
  BY <1>1, PlacesHold, Zenon DEF RowInv
<1>3. MaxRows \in Nat /\ Passed \in Rows0
  BY <1>1, PassedKept, Sizes DEF Sized
<1> QED
  BY <1>1, <1>2, <1>3 DEF PlaceOK, PipelineFacts, TopInv, Near, Rows0

(* How the history moves when no session resumes further on.               *)
LEMMA TopMoves ==
  ASSUME TypeInv, RowInv, TopInv, Tracked, [Next]_vars, NEW k \in 0..MaxRows,
         Resumed \subseteq {0, k},
         k \in Resumed \/ k = 0 \/ k = Left', k = 0 \/ Left' \in {0, k}
  PROVE  /\ k # 0 => top' = IF k > top THEN k ELSE top
         /\ k = 0 => top' = IF Left' > top THEN Left' ELSE top
<1>1. /\ top' \in Rows0 /\ top <= top' /\ Left' <= top'
      /\ \A c \in Resumed : c <= top'
      /\ top' \in {top, Left'} \cup Resumed
      /\ Left' \in Rows0
  BY TopStep DEF LeftOK
<1>2. top \in Nat /\ MaxRows \in Nat
  BY PipelineHolds DEF PipelineFacts
<1>3. PICK l : l = Left'
  OBVIOUS
<1>4. PICK m : m = top'
  OBVIOUS
<1>5. /\ m \in Nat /\ l \in Nat /\ top <= m /\ l <= m
      /\ k \in Resumed => k <= m
      /\ m \in {top, l, 0, k}
  BY <1>1, <1>2, <1>3, <1>4 DEF Rows0
<1>6. /\ k # 0 => m = IF k > top THEN k ELSE top
      /\ k = 0 => m = IF l > top THEN l ELSE top
  BY <1>2, <1>3, <1>5
<1> QED
  BY <1>3, <1>4, <1>6

LEMMA Stutters ==
  ASSUME TypeInv, RowInv, TopInv, Tracked, [Next]_vars, Resumed \subseteq {0},
         Left' = Left, Entered' = Entered,
         UNCHANGED <<delivered, dropped, cursor, done>>
  PROVE  UNCHANGED P!vars
<1>1. Left <= top /\ Left \in Nat /\ top \in Nat /\ 0 \in 0..MaxRows
  BY PipelineHolds DEF PipelineFacts
<1>2. top' = top
  BY <1>1, TopMoves
<1>3. Passed' = Passed
  BY PassedKept
<1> QED
  BY <1>2, <1>3 DEF P!vars

(* The engine has gone, or a session has yet to find out where it resumes. *)
LEMMA Leaving ==
  ASSUME TypeInv, RowInv, TopInv, Tracked, [Next]_vars, Resumed \subseteq {0},
         Left' = 0, Entered' = 0,
         UNCHANGED <<delivered, dropped, cursor, done>>
  PROVE  P!Next
<1>1. /\ top \in Nat /\ MaxRows \in Nat /\ Passed \in Near /\ 0 \in 0..MaxRows
  BY PipelineHolds DEF PipelineFacts
<1>2. top' = top
  <2>1. top' = IF 0 > top THEN 0 ELSE top
    BY <1>1, TopMoves
  <2>2. QED
    BY <1>1, <2>1
<1>3. Passed' = Passed
  BY PassedKept
<1>4. P!Restart
  BY <1>1, <1>2, <1>3 DEF P!Restart, P!Starts, Near
<1> QED
  BY <1>4, Zenon DEF P!Next

(* A position is saved, and no row moves.                                  *)
LEMMA Saving ==
  ASSUME TypeInv, RowInv, TopInv, Tracked, [Next]_vars, Resumed \subseteq {0},
         Left' = Left, Entered' = Entered, TopInv',
         UNCHANGED <<delivered, dropped>>
  PROVE  P!Next
<1>1. /\ Left <= top /\ Left \in Nat /\ top \in Nat /\ Entered \in Nat
      /\ Left <= Entered /\ 0 \in 0..MaxRows /\ MaxRows \in Nat
  BY PipelineHolds DEF PipelineFacts
<1>2. top' = top
  BY <1>1, TopMoves
<1>3. Passed' \in Near
  <2>1. PICK q : q = Passed'
    OBVIOUS
  <2>2. SnapTypes'
    BY TopStep, Zenon DEF BaseInv
  <2>3. cursor' \in 0..MaxRows /\ MaxRows \in 0..MaxRows
    BY <1>1, <2>2 DEF SnapTypes, Rows0
  <2>4. q = MaxRows \/ q = cursor'
    BY <2>1 DEF Passed
  <2>5. q <= top + 2
    BY <1>2, <2>1 DEF TopInv
  <2>6. q \in Near
    BY <2>3, <2>4, <2>5 DEF Near
  <2>7. QED
    BY <2>1, <2>6
<1>4. Left \in Left..Entered /\ (Left + 1)..Left = {}
  BY <1>1
<1>5. P!DoneMovesTo(Left)
  BY <1>1, <1>2 DEF P!DoneMovesTo
<1>6. P!Near = Near
  BY DEF P!Near, Near
<1>7. P!Advance
  BY <1>3, <1>4, <1>5, <1>6 DEF P!Advance
<1> QED
  BY <1>7, Zenon DEF P!Next

(* SyncSnapshot, and the forwarding goroutine.                             *)
LEMMA ReadingRefines ==
  ASSUME KeysReadBack, TypeInv, RowInv, TopInv, Tracked, [Next]_vars,
         NEW s \in Sessions, Reading(s)
  PROVE  P!Next
<1>0. PipelineFacts /\ PlaceOK
  BY PipelineHolds
<1>1. PlaceOK' /\ TopInv' /\ SnapTypes /\ ReaderInv /\ HandInv /\ FreshInv /\ SnapshotOnly
  BY RowInvStep, TopInvStep, TopStep, Zenon DEF BaseInv, RowInv
<1>2. UNCHANGED <<phase, cur, sess, delivered, dropped>>
  BY ReadingAside DEF calmVars
<1>3. PICK r : r = reader[s]
  OBVIOUS
<1>4. PICK n : n = reader'[s]
  OBVIOUS
<1>5. /\ reader' = [reader EXCEPT ![s] = n]
      /\ Quiet(r, n) \/ Opens(r, n) \/ Forwards(r, n)
      /\ n \in Readings /\ Sound(n) /\ r \in Readings /\ Sound(r)
  BY <1>1, <1>3, <1>4, ReadingSteps DEF Step, RowInv, SnapTypes, ReaderInv
<1>6. r.at \in {"open", "send"} => UNCHANGED <<cursor, done>>
  BY <1>3 DEF Reading, Check, Open, ReaderFails, PgQuery, PgQueryRejected,
     MongoFind, BatchFrom, Fetch, Forward, SendCancelled, Save, Finish, Mark,
     CloseChannels
<1>7. Resumed = IF r.at = "open" /\ n.at = "query" THEN {n.key} ELSE {}
  <2>1. \A t \in Sessions : t # s => reader'[t] = reader[t]
    BY <1>1, <1>5 DEF SnapTypes
  <2>2. Resumed \subseteq {n.key}
    BY <1>4, <2>1 DEF Resumed
  <2>3. r.at = "open" /\ n.at = "query" => n.key \in Resumed
    BY <1>3, <1>4 DEF Resumed
  <2>4. ~(r.at = "open" /\ n.at = "query") => Resumed = {}
    BY <1>3, <1>4, <2>1 DEF Resumed
  <2>5. QED
    BY <2>2, <2>3, <2>4
<1>8. /\ Taken(n) \in 0..MaxRows /\ Taken(r) \in 0..MaxRows /\ n.fw \in 0..MaxRows
  BY <1>5, RowFacts
<1>9. Quiet(r, n) \/ Forwards(r, n) => Resumed \subseteq {0}
  <2>1. CASE r.at = "open" /\ n.at = "query" /\ Quiet(r, n)
    <3>1. n.key = Taken(n) /\ Taken(r) = 0
      BY <1>5, <2>1 DEF Sound, Taken
    <3>2. QED
      BY <1>7, <2>1, <3>1 DEF Quiet
  <2>2. QED
    BY <1>7, <2>1 DEF Forwards
<1>10. InSession' <=> InSession
  BY <1>2 DEF InSession
<1>11. CASE s \in Others
  <2>1. Left' = Left /\ Entered' = Entered
    <3>1. CASE InSession
      <4>1. s # sess /\ sess \in Sessions
        BY <1>1, <1>11, <3>1 DEF Others, SnapshotOnly
      <4>2. reader'[sess] = reader[sess]
        BY <1>1, <1>5, <4>1 DEF SnapTypes
      <4>3. QED
        BY <1>2, <4>2 DEF Left, Entered, Live
    <3>2. CASE ~InSession
      BY <1>0, <1>1, <1>10, <3>2 DEF PlaceOK
    <3>3. QED
      BY <3>1, <3>2
  <2>2. CASE Opens(r, n)
    <3>1. s \in Fresh
      BY <1>3, <1>11, <2>2 DEF Opens, Fresh
    <3>2. ~InSession
      BY <1>1, <3>1 DEF FreshInv, InSession, CutShort
    <3>3. Left' = 0 /\ Entered' = 0
      BY <1>0, <2>1, <3>2 DEF PlaceOK
    <3>4. Passed' = Passed
      BY <1>6, <2>2, PassedKept DEF Opens
    <3>5. PICK k \in 0..MaxRows : k = Taken(n)
      BY <1>8
    <3>6. Resumed = {k} /\ k <= Passed
      BY <1>7, <2>2, <3>5 DEF Opens
    <3>7. top' = IF k > top THEN k ELSE top
      <4>1. k = 0 => top' = IF 0 > top THEN 0 ELSE top
        BY <3>3, <3>6, TopMoves
      <4>2. QED
        BY <3>3, <3>6, <4>1, TopMoves
    <3>8. k \in 0..Passed /\ 0 \in 0..MaxRows
      BY <1>0, <3>6 DEF PipelineFacts, Near
    <3>9. P!Restart
      BY <1>2, <3>3, <3>4, <3>7, <3>8 DEF P!Restart, P!Starts
    <3>10. QED
      BY <3>9, Zenon DEF P!Next
  <2>3. CASE Quiet(r, n) \/ Forwards(r, n)
    BY <1>1, <1>2, <1>9, <2>1, <2>3, Saving
  <2>4. QED
    BY <1>5, <2>2, <2>3
<1>12. CASE s \notin Others
  <2>1. s = sess /\ InSession
    BY <1>12 DEF Others
  <2>2. /\ Entered = Taken(r)
        /\ phase # "snapshot" => Left = cur - 1
        /\ phase = "snapshot" => Left = IF r.fw # 0 THEN r.fw - 1 ELSE Taken(r)
    BY <1>0, <1>3, <2>1 DEF PlaceOK
  <2>3. /\ Entered' = Taken(n)
        /\ phase # "snapshot" => Left' = cur - 1
        /\ phase = "snapshot" => Left' = IF n.fw # 0 THEN n.fw - 1 ELSE Taken(n)
        /\ Entered' <= Left' + 2 /\ Entered' \in Rows0
    BY <1>1, <1>2, <1>4, <1>10, <2>1 DEF PlaceOK
  <2>4. CASE Quiet(r, n)
    <3>1. Left' = Left /\ Entered' = Entered
      BY <2>2, <2>3, <2>4 DEF Quiet
    <3>2. QED
      BY <1>1, <1>2, <1>9, <2>4, <3>1, Saving
  <2>5. CASE Opens(r, n)
    <3>1. phase = "snapshot"
      BY <1>1, <1>3, <2>1, <2>5 DEF Opens, HandInv, InSession
    <3>2. PICK k \in 0..MaxRows : k = Taken(n)
      BY <1>8
    <3>3. Resumed = {k} /\ k <= Passed /\ Left' = k /\ Entered' = k
      BY <1>7, <2>3, <2>5, <3>1, <3>2 DEF Opens
    <3>4. top' = IF k > top THEN k ELSE top
      <4>1. k = 0 => top' = IF 0 > top THEN 0 ELSE top
        BY <3>3, TopMoves
      <4>2. QED
        BY <3>3, <4>1, TopMoves
    <3>5. k \in 0..Passed
      BY <1>0, <3>3 DEF PipelineFacts, Near
    <3>6. Passed' = Passed
      BY <1>6, <2>5, PassedKept DEF Opens
    <3>7. P!Restart
      BY <1>2, <3>3, <3>4, <3>5, <3>6 DEF P!Restart, P!Starts
    <3>8. QED
      BY <3>7, Zenon DEF P!Next
  <2>6. CASE Forwards(r, n)
    <3>1. PICK l : l = Left'
      OBVIOUS
    <3>2. PICK h : h = Entered'
      OBVIOUS
    <3>3. l = Left
      <4>1. n.fw # 0 /\ n.fw - 1 = Taken(r) /\ r.fw = 0
        BY <1>8, <2>6 DEF Forwards
      <4>2. QED
        BY <2>2, <2>3, <3>1, <4>1
    <3>4. h = Entered + 1 /\ h <= l + 2 /\ h \in 0..MaxRows
      BY <2>2, <2>3, <2>6, <3>1, <3>2 DEF Forwards, Rows0
    <3>5. Entered < MaxRows /\ Entered - Left < 2
      BY <1>0, <3>3, <3>4 DEF PipelineFacts
    <3>6. top' = top
      <4>1. 0 \in 0..MaxRows
        BY <1>0 DEF PipelineFacts
      <4>2. top' = IF Left' > top THEN Left' ELSE top
        BY <1>9, <2>6, <4>1, TopMoves
      <4>3. PICK m : m = top'
        OBVIOUS
      <4>4. m = IF l > top THEN l ELSE top
        BY <3>1, <4>2, <4>3, Zenon
      <4>5. m = top
        BY <1>0, <3>3, <4>4 DEF PipelineFacts
      <4>6. QED
        BY <4>3, <4>5
    <3>7. Passed' = Passed
      BY <1>6, <2>6, PassedKept DEF Forwards
    <3>8. P!Read
      BY <1>2, <3>1, <3>2, <3>3, <3>4, <3>5, <3>6, <3>7 DEF P!Read
    <3>9. QED
      BY <3>8, Zenon DEF P!Next
  <2>7. QED
    BY <1>5, <2>4, <2>5, <2>6
<1> QED
  BY <1>11, <1>12

(* The goroutine that runs Start, and the brokers.                         *)
LEMMA AloneRefines ==
  ASSUME KeysReadBack, TypeInv, RowInv, TopInv, Tracked, [Next]_vars, Alone,
         Resumed = {}
  PROVE  [P!Next]_(P!vars)
<1>0. PipelineFacts /\ PlaceOK
  BY PipelineHolds
<1>1. /\ PlaceOK' /\ TopInv' /\ SnapTypes /\ ReaderInv /\ HandInv /\ SnapshotOnly
      /\ EngineTypeOK /\ InHand
  BY RowInvStep, TopInvStep, TopStep, Zenon DEF BaseInv, RowInv
<1>2. UNCHANGED <<sess, reader, cursor, done>> /\ Passed' = Passed
  BY PassedKept DEF Alone, snapVars
<1>3. Stays \/ Publishes \/ Settles \/ Quits \/ Between
  BY <1>1, AlonePhases
<1>4. ASSUME UNCHANGED <<delivered, dropped>>, Left' = Left, Entered' = Entered
      PROVE  [P!Next]_(P!vars)
  <2>1. UNCHANGED P!vars
    BY <1>2, <1>4, Stutters
  <2>2. QED
    BY <2>1, Zenon
<1>5. ASSUME UNCHANGED <<delivered, dropped>>, ~InSession'
      PROVE  [P!Next]_(P!vars)
  <2>1. Left' = 0 /\ Entered' = 0
    BY <1>1, <1>5 DEF PlaceOK
  <2>2. P!Next
    BY <1>2, <1>5, <2>1, Leaving
  <2>3. QED
    BY <2>2, Zenon
<1>6. ASSUME phase \in {"transform", "publishing"}
      PROVE  /\ cur \in 1..MaxRows /\ cur = Left + 1 /\ Left < Entered
             /\ sess \in Sessions /\ InSession
  <2>1. InSession /\ cur \in 1..MaxRows /\ sess \in Sessions
    BY <1>1, <1>6, Sizes DEF InSession, InHand, Processing, Sized, SnapshotOnly
  <2>2. Left = cur - 1 /\ Entered = Taken(reader[sess])
    BY <1>0, <1>6, <2>1 DEF PlaceOK
  <2>3. cur = IF reader[sess].fw # 0 THEN reader[sess].fw - 1 ELSE Taken(reader[sess])
    BY <1>1, <1>6 DEF HandInv
  <2>4. reader[sess] \in Readings /\ Sound(reader[sess])
    BY <1>1, <2>1 DEF SnapTypes, ReaderInv
  <2>5. /\ reader[sess].fw # 0 => reader[sess].fw = Taken(reader[sess])
        /\ Taken(reader[sess]) \in 0..MaxRows
    BY <2>4, RowFacts DEF Sound
  <2>6. QED
    BY <1>0, <2>1, <2>2, <2>3, <2>5 DEF PipelineFacts
<1>7. CASE Stays
  <2>1. Left' = Left /\ Entered' = Entered
    BY <1>2, <1>7 DEF Stays, Left, Entered, Live
  <2>2. CASE UNCHANGED <<delivered, dropped>>
    BY <1>4, <2>1, <2>2
  <2>3. ASSUME NEW p \in Producers, phase = "publishing", UNCHANGED dropped,
               delivered' = [delivered EXCEPT ![p] = @ \cup {cur}]
        PROVE  [P!Next]_(P!vars)
    <3>1. cur = Left + 1 /\ Left < Entered
      BY <1>6, <2>3
    <3>2. top' = top
      <4>1. UNCHANGED <<Left, Entered>> /\ Left <= top /\ 0 \in 0..MaxRows
            /\ Left \in Nat /\ top \in Nat
        BY <1>0, <2>1 DEF PipelineFacts
      <4>2. QED
        BY <4>1, TopMoves
    <3>3. P!Publish(p)
      BY <1>2, <2>1, <2>3, <3>1, <3>2 DEF P!Publish
    <3>4. QED
      BY <3>3, Zenon DEF P!Next
  <2>4. \/ UNCHANGED <<delivered, dropped>>
        \/ /\ phase = "publishing" /\ UNCHANGED dropped
           /\ \E p \in Producers : delivered' = [delivered EXCEPT ![p] = @ \cup {cur}]
    <3>1. ASSUME NEW p \in Producers, PublishOk(p) \/ PublishFailed(p)
          PROVE  /\ phase = "publishing" /\ UNCHANGED dropped
                 /\ UNCHANGED delivered
                    \/ delivered' = [delivered EXCEPT ![p] = @ \cup {cur}]
      BY <1>1, <3>1 DEF PublishOk, PublishFailed, InHand
    <3>2. ASSUME NEW p \in Producers, CollectDial(p) \/ DialOk(p) \/ DialFailed(p)
          PROVE  UNCHANGED <<delivered, dropped>>
      BY <3>2 DEF CollectDial, DialOk, DialFailed
    <3>3. CASE Cancel
      BY <3>3 DEF Cancel
    <3>4. CASE \/ SourceConnected \/ SourceConnectFailed \/ DialCancelled
               \/ StreamCancelled \/ CaptureStarted \/ CaptureFailed
               \/ RunFails("select") \/ TransformKeeps \/ TransformFails
               \/ PublishDone \/ Unwind \/ StartBackoff \/ BackoffCancelled \/ Retry
      BY <3>4, Zenon DEF SourceConnected, SourceConnectFailed, DialCancelled,
         StreamCancelled, CaptureStarted, CaptureFailed, RunFails, TransformKeeps,
         TransformFails, PublishDone, Unwind, StartBackoff, BackoffCancelled, Retry
    <3>5. ~TransformDrops
      <4>1. TransformDrops => phase = "transform" /\ phase' # "transform"
        BY DEF TransformDrops, SettledPhase, CallerPhase
      <4>2. QED
        BY <1>7, <4>1 DEF Stays
    <3>6. QED
      BY <3>1, <3>2, <3>3, <3>4, <3>5, Zenon DEF Alone, OwnStep
  <2>5. QED
    BY <2>2, <2>3, <2>4
<1>8. CASE ~Stays
  <2>1. \/ TransformDrops \/ TransformKeeps \/ PublishDone
        \/ UNCHANGED <<delivered, dropped>>
    <3>1. ~(\E p \in Producers : CollectDial(p) \/ DialOk(p) \/ DialFailed(p)
                                 \/ PublishOk(p) \/ PublishFailed(p))
      <4>1. ASSUME NEW p \in Producers,
                   CollectDial(p) \/ DialOk(p) \/ DialFailed(p)
                   \/ PublishOk(p) \/ PublishFailed(p)
            PROVE  Stays
        <5>1. UNCHANGED <<phase, cur, cancelled>>
          BY <4>1, Zenon DEF CollectDial, DialOk, DialFailed, PublishOk, PublishFailed
        <5>2. QED
          BY <5>1, Zenon DEF Stays
      <4>2. QED
        BY <1>8, <4>1, Zenon
    <3>2. CASE \/ SourceConnected \/ SourceConnectFailed \/ DialCancelled
               \/ StreamCancelled \/ CaptureStarted \/ CaptureFailed
               \/ RunFails("select") \/ TransformFails
               \/ Unwind \/ StartBackoff \/ BackoffCancelled \/ Retry \/ Cancel
      BY <3>2, Zenon DEF SourceConnected, SourceConnectFailed, DialCancelled,
         StreamCancelled, CaptureStarted, CaptureFailed, RunFails,
         TransformFails, Unwind, StartBackoff, BackoffCancelled, Retry, Cancel
    <3>3. QED
      BY <3>1, <3>2, Zenon DEF Alone, OwnStep
  <2>2. PublishDone \/ TransformKeeps => UNCHANGED <<delivered, dropped>>
    BY DEF PublishDone, TransformKeeps
  <2>3. TransformDrops => /\ phase = "transform" /\ UNCHANGED delivered
                          /\ dropped' = dropped \cup {cur} /\ Settles
    <3>1. TransformDrops => /\ phase = "transform" /\ UNCHANGED delivered
                            /\ dropped' = dropped \cup {cur}
                            /\ phase' \in {"acking", "select", "snapshot"}
      BY DEF TransformDrops, SettledPhase, CallerPhase
    <3>2. phase = "transform" /\ phase' \in {"acking", "select", "snapshot"} => Settles
      BY <1>3 DEF Stays, Publishes, Settles, Quits, Between
    <3>3. QED
      BY <3>1, <3>2
  <2>4. CASE Settles
    <3>1. /\ cur \in 1..MaxRows /\ cur = Left + 1 /\ Left < Entered
          /\ sess \in Sessions /\ InSession /\ InSession'
          /\ phase \in {"transform", "publishing"} /\ phase' = "snapshot"
          /\ Settled(cur)' /\ cur' = cur
      BY <1>6, <2>4 DEF Settles, InSession
    <3>2. Entered' = Entered
      BY <1>0, <1>1, <1>2, <3>1 DEF PlaceOK
    <3>3. Left' = cur
      <4>1. Left' = IF reader[sess].fw # 0 THEN reader[sess].fw - 1
                    ELSE Taken(reader[sess])
        BY <1>1, <1>2, <3>1 DEF PlaceOK
      <4>2. QED
        BY <1>1, <3>1, <4>1 DEF HandInv
    <3>4. P!DoneMovesTo(cur)
      <4>1. 0 \in 0..MaxRows
        BY <1>0 DEF PipelineFacts
      <4>2. top' = IF Left' > top THEN Left' ELSE top
        BY <4>1, TopMoves
      <4>3. QED
        BY <3>3, <4>2, Zenon DEF P!DoneMovesTo
    <3>5. CASE TransformDrops
      <4>1. P!Drop
        BY <1>2, <2>3, <3>1, <3>2, <3>4, <3>5 DEF P!Drop
      <4>2. QED
        BY <4>1, Zenon DEF P!Next
    <3>6. CASE UNCHANGED <<delivered, dropped>>
      <4>1. Settled(cur)
        BY <3>1, <3>6, Zenon DEF Settled
      <4>2. cur \in Left..Entered /\ \A e \in (Left + 1)..cur : P!Settled(e)
        BY <1>0, <3>1, <4>1 DEF PipelineFacts, P!Settled, Settled
      <4>3. Passed' \in P!Near
        BY <1>0, <1>2 DEF PipelineFacts, Near, P!Near
      <4>4. P!Advance
        BY <3>2, <3>4, <3>6, <4>2, <4>3, Zenon DEF P!Advance
      <4>5. QED
        BY <4>4, Zenon DEF P!Next
    <3>7. QED
      BY <2>1, <2>2, <3>5, <3>6
  <2>5. CASE Publishes
    <3>1. UNCHANGED <<delivered, dropped>>
      BY <2>1, <2>2, <2>3, <2>5 DEF Publishes, Settles
    <3>2. InSession /\ InSession' /\ phase # "snapshot" /\ phase' # "snapshot"
          /\ cur' = cur
      BY <2>5 DEF Publishes, InSession
    <3>3. Left' = Left /\ Entered' = Entered
      BY <1>0, <1>1, <1>2, <3>2 DEF PlaceOK
    <3>4. QED
      BY <1>4, <3>1, <3>3
  <2>6. CASE Quits \/ Between
    <3>1. UNCHANGED <<delivered, dropped>> /\ ~InSession'
      BY <2>1, <2>2, <2>3, <2>6 DEF Quits, Between, Settles, InSession
    <3>2. QED
      BY <1>5, <3>1
  <2>7. QED
    BY <1>3, <1>8, <2>4, <2>5, <2>6
<1> QED
  BY <1>7, <1>8

LEMMA RefinementStep ==
  ASSUME KeysReadBack, TypeInv, RowInv, TopInv, [Next]_vars
  PROVE  [P!Next]_(P!vars)
<1>0. PipelineFacts /\ PlaceOK
  BY PipelineHolds
<1>1. /\ PlaceOK' /\ SnapTypes /\ ReaderInv /\ HandInv /\ SnapshotOnly
      /\ EngineTypeOK /\ InHand /\ BusyInv
  BY RowInvStep, TopStep, Zenon DEF BaseInv, RowInv, TypeInv
<1>2. CASE Tracked /\ \E s \in Sessions : Reading(s)
  <2>1. P!Next
    BY <1>2, ReadingRefines
  <2>2. QED
    BY <2>1, Zenon
<1>3. CASE UNCHANGED vars
  BY <1>3 DEF vars, engineVars, snapVars, P!vars, Left, Entered, Live, Passed
<1>4. CASE Tracked /\ \A s \in Sessions : ~Reading(s)
  <2>0. Resumed = {}
    BY <1>4, ResumedOne
  <2>1. ASSUME UNCHANGED <<delivered, dropped, cursor, done>>, Left' = 0, Entered' = 0
        PROVE  [P!Next]_(P!vars)
    <3>1. P!Next
      BY <1>4, <2>0, <2>1, Leaving
    <3>2. QED
      BY <3>1, Zenon
  <2>2. ASSUME UNCHANGED <<delivered, dropped, cursor, done>>, ~InSession'
        PROVE  [P!Next]_(P!vars)
    BY <1>1, <2>1, <2>2 DEF PlaceOK
  <2>3. CASE Alone
    BY <1>4, <2>0, <2>3, AloneRefines
  <2>4. CASE SnapshotEnds \/ GivesUp \/ Close
    BY <2>2, <2>4, Kinds DEF Ends, CutsShort, Closes, snapVars, InSession
  <2>5. CASE Dies
    BY <2>2, <2>5, Kinds DEF Dies, InSession
  <2>6. CASE DialsDone
    <3>1. CASE phase' = "closing" /\ UNCHANGED snapVars
      BY <2>2, <2>6, <3>1, Kinds DEF snapVars, InSession
    <3>2. CASE Enters
      <4>1. FreeSession \in Sessions
        BY <1>1, <3>2, FreeSessionExists DEF Enters
      <4>2. reader'[sess'].at = "check"
        BY <1>1, <3>2, <4>1 DEF Enters, SnapTypes, NoReader
      <4>3. Left' = 0 /\ Entered' = 0
        BY <4>2 DEF Left, Entered, Live
      <4>4. QED
        BY <2>1, <2>6, <3>2, <4>3, Kinds DEF Enters
    <3>3. QED
      BY <2>6, <3>1, <3>2, Kinds
  <2>7. CASE HandOver
    <3>1. Hands /\ InSession /\ InSession' /\ sess' = sess /\ sess \in Sessions
          /\ UNCHANGED <<delivered, dropped, cursor, done>>
      BY <1>1, <2>7, Kinds DEF Hands, InSession, SnapshotOnly
    <3>2. reader'[sess].at = reader[sess].at /\ reader'[sess].pos = reader[sess].pos
      BY <1>1, <3>1 DEF Hands, SnapTypes, Readings
    <3>3. Entered' = Entered
      <4>1. Entered' = Taken(reader'[sess]) /\ Entered = Taken(reader[sess])
        BY <1>0, <1>1, <3>1 DEF PlaceOK
      <4>2. QED
        BY <3>2, <4>1 DEF Taken
    <3>4. Left' = Left
      <4>1. Left' = cur' - 1 /\ cur' = reader[sess].fw /\ reader[sess].fw # 0
        BY <1>1, <3>1 DEF PlaceOK, Hands
      <4>2. Left = reader[sess].fw - 1
        BY <1>0, <3>1, <4>1 DEF PlaceOK, Hands
      <4>3. QED
        BY <4>1, <4>2
    <3>5. UNCHANGED P!vars
      BY <1>4, <2>0, <3>1, <3>3, <3>4, Stutters
    <3>6. QED
      BY <3>5, Zenon
  <2>8. QED
    BY <1>3, <1>4, <2>3, <2>4, <2>5, <2>6, <2>7, StepCases, Zenon
<1> QED
  BY <1>2, <1>3, <1>4, StepCases, Zenon

(* Refinement: with its batches, its forwarding goroutine, the cursor that *)
(* runs ahead, and the sessions that runs leave behind, the snapshot is    *)
(* the bounded pipeline of Pipeline: rows leave in the order of their      *)
(* keys, and nothing is saved further ahead than two rows.                 *)
THEOREM SnapshotImplementsPipeline ==
  ASSUME KeysReadBack
  PROVE  Spec => ImplementsPipeline
<1>1. Init => P!Init
  <2>1. SUFFICES ASSUME Init PROVE P!Init
    OBVIOUS
  <2>2. /\ phase = "connect" /\ cursor = 0 /\ done = FALSE /\ top = 0 /\ dropped = {}
        /\ delivered = [p \in Producers |-> {}]
    BY <2>1, Zenon DEF Init, EngineInit
  <2>3. QED
    BY <2>2 DEF P!Init, Left, Entered, Live, Passed
<1>2. IInv /\ [Next]_vars => [P!Next]_(P!vars)
  BY RefinementStep, Zenon DEF IInv
<1> QED
  BY <1>1, <1>2, CountInvariant, PTL DEF Spec, ImplementsPipeline, P!Spec
=============================================================================
