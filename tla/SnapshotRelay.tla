--------------------------- MODULE SnapshotRelay ----------------------------
(***************************************************************************)
(* The engine with a snapshot bound to it: runSnapshot of engine.go, the   *)
(* forwarding goroutine of snapshot.engine.go, and SyncSnapshot of the     *)
(* Postgres and the MongoDB source, which reads a table in batches by key. *)
(* The stream that follows the snapshot is quiet here.                     *)
(*                                                                         *)
(* A session is what one call of runSnapshot starts: the goroutine that    *)
(* reads and the goroutine that forwards.  When processing fails, the      *)
(* engine leaves a session behind, and the next run starts another.        *)
(***************************************************************************)
EXTENDS Engine, FiniteSets, FiniteSetsExt

CONSTANTS MaxRows,         \* the table has rows 1..MaxRows, in key order
          BatchSize,
          Settings         \* the configurations of the snapshot

(* The key column once it is printed: text compares as the key; typed (a   *)
(* uuid, an ObjectID) does not; blank is the empty string.                 *)
Keys == {"text", "typed", "blank"}

ASSUME TableAssumption ==
  /\ MaxRows \in Nat /\ Events = 1..MaxRows
  /\ BatchSize \in Nat \ {0}
  /\ Settings \subseteq
       [database : {"postgres", "mongo"},
        mode : {"never", "initial", "always"},
        store : BOOLEAN,      \* a PersistenceStore is configured
        keys : Keys]

ASSUME BoundAssumption == SnapshotBound = TRUE

(* What the theorems about the rows suppose, and some settings break: that *)
(* the key of the last row comes back as that key, or is refused.          *)
ReadBack(c) ==
  c.keys = "text" \/ (c.database = "postgres" /\ c.keys = "typed")

KeysReadBack == \A c \in Settings : ReadBack(c)

Sessions == 1..(MaxFaults + 1)

VARIABLES
  conf,    \* the configuration; never changes
  sess,    \* the session of the present run; 0: none
  reader,  \* reader[s]: the two goroutines of session s
  cursor,  \* the stored "snapshot:cursor"; 0: none
  done,    \* "snapshot:done" is stored
  top      \* history: the largest value of Left so far

snapVars == <<sess, reader, cursor, done>>
vars == <<engineVars, snapVars, top, conf>>

(* at      where SyncSnapshot is                                           *)
(* key     lastKey                                                         *)
(* pos     the last row the cursor returned                                *)
(* hi      the last row of the batch                                       *)
(* fw      the row the forwarding goroutine holds; 0: none                 *)
(* failed  SyncSnapshot returns an error                                   *)
NoReader ==
  [at |-> "none", key |-> 0, pos |-> 0, hi |-> 0, fw |-> 0, failed |-> FALSE]

Rows0 == 0..MaxRows

TypeOK ==
  /\ EngineTypeOK
  /\ conf \in Settings
  /\ sess \in Sessions \cup {0}
  /\ reader \in [Sessions ->
       [at : {"none", "check", "open", "query", "fetch", "send", "save",
              "finish", "mark", "leave", "ended"},
        key : Rows0, pos : Rows0, hi : Rows0, fw : Rows0, failed : BOOLEAN]]
  /\ cursor \in Rows0 /\ done \in BOOLEAN /\ top \in Rows0

Init ==
  /\ EngineInit
  /\ conf \in Settings
  /\ sess = 0 /\ reader = [s \in Sessions |-> NoReader]
  /\ cursor = 0 /\ done = FALSE /\ top = 0

-----------------------------------------------------------------------------
(* The rows that left the pipeline, and the rows that entered it, in the   *)
(* session of the present run.                                             *)
Live ==
  /\ phase \in {"snapshot", "transform", "publishing"}
  /\ reader[sess].at # "check"

Entered ==
  IF ~Live THEN 0
  ELSE LET r == reader[sess] IN IF r.at = "send" THEN r.pos - 1 ELSE r.pos

Left ==
  IF ~Live THEN 0
  ELSE IF phase # "snapshot" THEN cur - 1
  ELSE IF reader[sess].fw # 0 THEN reader[sess].fw - 1
  ELSE Entered

(* Where sessions resume in this step.                                     *)
Resumed ==
  {reader'[s].key :
     s \in {t \in Sessions : reader[t].at = "open" /\ reader'[t].at = "query"}}

Tracked == top' = Max({top, Left'} \cup Resumed) /\ UNCHANGED conf

-----------------------------------------------------------------------------
(* SyncSnapshot                                                            *)

Goes(s, next) == reader' = [reader EXCEPT ![s].at = next]

LeavesWith(s, err) ==
  reader' = [reader EXCEPT ![s].at = "leave", ![s].failed = err]

(* The checks before the snapshot.  An error of Load counts as not done.   *)
Check(s) ==
  /\ reader[s].at = "check"
  /\ \/ conf.mode = "never" /\ LeavesWith(s, FALSE) /\ UNCHANGED faults
     \/ conf.mode = "initial" /\ ~conf.store /\ LeavesWith(s, TRUE) /\ UNCHANGED faults
     \/ conf.mode = "initial" /\ done /\ LeavesWith(s, FALSE) /\ UNCHANGED faults
     \/ conf.mode = "initial" /\ done /\ Goes(s, "open") /\ Fails
     \/ /\ conf.mode = "always" \/ (conf.mode = "initial" /\ conf.store /\ ~done)
        /\ Goes(s, "open") /\ UNCHANGED faults
  /\ UNCHANGED <<calmVars, sess, cursor, done>>

(* Connected: resume at the cursor, or at the first row without one.  An   *)
(* error of Load counts as no cursor.                                      *)
Open(s) ==
  /\ reader[s].at = "open"
  /\ \E k \in {0, cursor} :
       /\ IF k = cursor THEN UNCHANGED faults ELSE Fails
       /\ reader' = [reader EXCEPT ![s].at = "query", ![s].key = k, ![s].pos = k]
  /\ UNCHANGED <<calmVars, sess, cursor, done>>

(* A connection of a run that has closed its source.                       *)
Disconnected(s) == conf.database = "mongo" /\ s # sess

(* Connecting, the query or a fetch fails.                                 *)
ReaderFails(s) ==
  /\ reader[s].at \in {"open", "query", "fetch"}
  /\ LeavesWith(s, TRUE)
  /\ Fails \/ (Disconnected(s) /\ UNCHANGED faults)
  /\ UNCHANGED <<calmVars, sess, cursor, done>>

(* Mutant: no cap at the end of the table.                                 *)
BatchEndUncapped(k) == k + BatchSize

(* The last row of a batch of rows after k.                                *)
BatchEnd(k) == IF k + BatchSize > MaxRows THEN MaxRows ELSE k + BatchSize

BatchFrom(s, end) ==
  /\ reader' = [reader EXCEPT ![s].at = "fetch", ![s].pos = reader[s].key,
                              ![s].hi = end]
  /\ UNCHANGED <<engineVars, sess, done>>

(* Mutant: the cursor is saved for the whole batch when it is queried.     *)
PgQuerySaves(s) ==
  /\ conf.database = "postgres" /\ reader[s].at = "query"
  /\ reader[s].key = 0 \/ conf.keys = "text"
  /\ BatchFrom(s, BatchEnd(reader[s].key))
  /\ cursor' = BatchEnd(reader[s].key)

(* SELECT ... WHERE key > $1 ORDER BY key LIMIT n                          *)
PgQuery(s) ==
  /\ conf.database = "postgres" /\ reader[s].at = "query"
  /\ reader[s].key = 0 \/ conf.keys = "text"
  /\ BatchFrom(s, BatchEnd(reader[s].key))
  /\ UNCHANGED cursor

(* The server rejects the printed form of a key ("[85 14 ...]" for a uuid).*)
PgQueryRejected(s) ==
  /\ conf.database = "postgres" /\ reader[s].at = "query"
  /\ reader[s].key # 0 /\ conf.keys = "typed"
  /\ LeavesWith(s, TRUE)
  /\ UNCHANGED <<engineVars, sess, cursor, done>>

(* Find with {key: {$gt: lastKey}}: a string is less than no ObjectID.     *)
MongoFind(s) ==
  /\ conf.database = "mongo" /\ reader[s].at = "query" /\ ~Disconnected(s)
  /\ BatchFrom(s, IF reader[s].key = 0 \/ conf.keys = "text"
                    THEN BatchEnd(reader[s].key) ELSE reader[s].key)
  /\ UNCHANGED cursor

(* The next row of the batch, converted to an event; or the batch is over: *)
(* an empty one ends the snapshot.                                         *)
Fetch(s) ==
  LET r == reader[s] IN
  /\ r.at = "fetch"
  /\ \/ /\ r.pos < r.hi
        /\ reader' = [reader EXCEPT ![s].at = "send", ![s].pos = r.pos + 1]
     \/ /\ r.pos = r.hi /\ r.pos # r.key
        /\ Goes(s, "save")
     \/ /\ r.pos = r.hi /\ r.pos = r.key
        /\ Goes(s, IF conf.store THEN "finish" ELSE "leave")
  /\ UNCHANGED <<engineVars, sess, cursor, done>>

(* ch <- ev meets the receive of the forwarding goroutine.                 *)
Forward(s) ==
  /\ reader[s].at = "send" /\ reader[s].fw = 0
  /\ reader' = [reader EXCEPT ![s].at = "fetch", ![s].fw = reader[s].pos]
  /\ UNCHANGED <<engineVars, sess, cursor, done>>

(* case <-ctx.Done() of that send: the row stays behind.                   *)
SendCancelled(s) ==
  /\ reader[s].at = "send" /\ cancelled
  /\ reader' = [reader EXCEPT ![s].at = "leave", ![s].failed = TRUE,
                              ![s].pos = reader[s].pos - 1]
  /\ UNCHANGED <<engineVars, sess, cursor, done>>

(* Mutant: the key of the row the next batch should begin with.            *)
LastKeyNext(pos) == IF pos < MaxRows THEN pos + 1 ELSE pos

LastKey(pos) == IF conf.keys = "blank" THEN 0 ELSE pos

(* lastKey = batchLastKey, and the cursor is saved; an error is ignored.   *)
Save(s) ==
  /\ reader[s].at = "save"
  /\ reader' = [reader EXCEPT ![s].at = "query",
                  ![s].key = LastKey(reader[s].pos),
                  ![s].pos = LastKey(reader[s].pos)]
  /\ \/ conf.store /\ cursor' = LastKey(reader[s].pos) /\ UNCHANGED faults
     \/ conf.store /\ UNCHANGED cursor /\ Fails
     \/ ~conf.store /\ UNCHANGED <<cursor, faults>>
  /\ UNCHANGED <<calmVars, sess, done>>

(* The cursor is deleted; an error is ignored.                             *)
Finish(s) ==
  /\ reader[s].at = "finish"
  /\ Goes(s, IF conf.mode = "initial" THEN "mark" ELSE "leave")
  /\ \/ cursor' = 0 /\ UNCHANGED faults
     \/ UNCHANGED cursor /\ Fails
  /\ UNCHANGED <<calmVars, sess, done>>

(* Initial: the done marker is saved; an error is ignored.                 *)
Mark(s) ==
  /\ reader[s].at = "mark"
  /\ Goes(s, "leave")
  /\ \/ done' = TRUE /\ UNCHANGED faults
     \/ UNCHANGED done /\ Fails
  /\ UNCHANGED <<calmVars, sess, cursor>>

(* Mutant: the channel is closed only after a snapshot that succeeded.     *)
CloseOnSuccess(s) ==
  /\ reader[s].at = "leave" /\ ~reader[s].failed
  /\ Goes(s, "ended")
  /\ UNCHANGED <<engineVars, sess, cursor, done>>

(* close(tracked), close(snapshotCh): the forwarding goroutine ends, or    *)
(* panics in its send on the closed channel.                               *)
CloseChannels(s) ==
  /\ reader[s].at = "leave"
  /\ \/ /\ reader[s].fw = 0
        /\ Goes(s, "ended")
        /\ UNCHANGED <<engineVars, sess>>
     \/ /\ reader[s].fw # 0
        /\ Panic
        /\ sess' = 0 /\ reader' = [t \in Sessions |-> NoReader]
  /\ UNCHANGED <<cursor, done>>

-----------------------------------------------------------------------------
(* runSnapshot and the rest of a run                                       *)

Free(s) == reader[s].at \in {"none", "ended"}

FreeSession == CHOOSE s \in Sessions : Free(s)

(* connectProducers returns; go SyncSnapshot(ctx, snapshotCh)              *)
DialsDone ==
  /\ DialsCollected
  /\ \/ /\ phase' # "snapshot"
        /\ UNCHANGED snapVars
     \/ /\ phase' = "snapshot"
        /\ sess' = FreeSession
        /\ reader' = [reader EXCEPT ![FreeSession] = [NoReader EXCEPT !.at = "check"]]
        /\ UNCHANGED <<cursor, done>>

(* The forwarding goroutine's ch <- ev meets the receive of runSnapshot.   *)
HandOver ==
  /\ phase = "snapshot" /\ reader[sess].fw # 0
  /\ SnapshotReceive(reader[sess].fw)
  /\ reader' = [reader EXCEPT ![sess].fw = 0]
  /\ UNCHANGED <<sess, cursor, done>>

(* Mutant: the error of SyncSnapshot is not looked at.                     *)
SnapshotEndsAnyhow ==
  /\ phase = "snapshot" /\ reader[sess].at = "ended"
  /\ SnapshotReturns
  /\ UNCHANGED snapVars

(* if !ok { return <-snapshotErrCh }                                       *)
SnapshotEnds ==
  /\ phase = "snapshot" /\ reader[sess].at = "ended"
  /\ IF reader[sess].failed THEN SnapshotFailed ELSE SnapshotReturns
  /\ UNCHANGED snapVars

CaptureRefused == CaptureFailed /\ Fails /\ UNCHANGED snapVars

StreamBroken == RunFails("select") /\ Fault /\ UNCHANGED snapVars

Close ==
  /\ SourceClosed
  /\ sess' = 0
  /\ UNCHANGED <<reader, cursor, done>>

ProcessDies ==
  /\ Crash
  /\ sess' = 0 /\ reader' = [s \in Sessions |-> NoReader]
  /\ UNCHANGED <<cursor, done>>

-----------------------------------------------------------------------------
(* The steps of the goroutine that runs Start.                             *)
Main ==
  /\ \/ SourceConnected /\ UNCHANGED snapVars
     \/ SourceConnectFailed /\ Fails /\ UNCHANGED snapVars
     \/ (\E p \in Producers : CollectDial(p)) /\ UNCHANGED snapVars
     \/ DialCancelled /\ UNCHANGED snapVars
     \/ DialsDone
     \/ HandOver \/ SnapshotEnds
     \/ SnapshotCancelled /\ UNCHANGED snapVars
     \/ (TransformKeeps \/ TransformDrops \/ TransformFails) /\ UNCHANGED snapVars
     \/ PublishDone /\ UNCHANGED snapVars
     \/ (CaptureStarted \/ StreamCancelled) /\ UNCHANGED snapVars
     \/ CaptureRefused
     \/ (Unwind \/ StartBackoff) /\ UNCHANGED snapVars
     \/ (Retry \/ BackoffCancelled) /\ UNCHANGED snapVars
     \/ Close
  /\ Tracked

Sync(s) ==
  /\ \/ Check(s) \/ Open(s) \/ ReaderFails(s)
     \/ PgQuery(s) \/ PgQueryRejected(s) \/ MongoFind(s)
     \/ Fetch(s) \/ Forward(s) \/ SendCancelled(s)
     \/ Save(s) \/ Finish(s) \/ Mark(s)
     \/ CloseChannels(s)
  /\ Tracked

DialReturns(p) == (DialOk(p) \/ DialFailed(p)) /\ UNCHANGED snapVars /\ Tracked

PublishReturns(p) ==
  (PublishOk(p) \/ PublishFailed(p)) /\ UNCHANGED snapVars /\ Tracked

Terminated == phase \in {"stopped", "panicked"} /\ UNCHANGED vars

Next ==
  \/ Main
  \/ \E s \in Sessions : Sync(s)
  \/ \E p \in Producers : DialReturns(p) \/ PublishReturns(p)
  \/ Cancel /\ UNCHANGED snapVars /\ Tracked
  \/ StreamBroken /\ Tracked
  \/ ProcessDies /\ Tracked
  \/ Terminated

Spec == Init /\ [][Next]_vars

(* Every goroutine is scheduled, and calls return, but for the receive of  *)
(* the quiet stream.                                                       *)
FairSpec ==
  /\ Spec
  /\ WF_vars(Main)
  /\ \A s \in Sessions : WF_vars(Sync(s))
  /\ \A p \in Producers : WF_vars(DialReturns(p)) /\ WF_vars(PublishReturns(p))

-----------------------------------------------------------------------------
(* Rows that no later session will read.                                   *)
Passed == IF done THEN MaxRows ELSE cursor

Unsettled(e) == ~Settled(e)

(* snapshot.go:52-59, resuming after a crash in the middle: the cursor,    *)
(* and the done marker, run ahead by the row in the forwarding goroutine   *)
(* and the row being published, so each failure or restart loses two rows  *)
(* at most, whatever the batch size.                                       *)
LossBounded ==
  Cardinality({e \in 1..Passed : Unsettled(e)}) <= 2 * (faults + 1)

(* Rows leave in the order of their keys, over all sessions: when a row    *)
(* first reaches a producer, the rows before it have all been settled, but *)
(* for two lost per failure.                                               *)
KeyOrder ==
  [][\A p \in Producers : \A e \in delivered'[p] \ delivered[p] :
       Cardinality({d \in 1..(e - 1) : Unsettled(d)}) <= 2 * faults]_vars

(* engine.go:100-104: the stream starts only after the whole table was     *)
(* published, but for what a failure before made a restart skip.           *)
SnapshotBeforeStream ==
  phase \in {"capture", "select"} /\ ~cancelled /\ conf.mode # "never" =>
    Cardinality({e \in Events : Unsettled(e)}) <= 2 * faults

(* engine.go:72, "On any error, it backs off and retries.  On context      *)
(* cancellation, it exits cleanly": the process does not panic.            *)
NeverPanics == phase # "panicked"

(* Initial needs a store for its done marker, and a second batch a key     *)
(* that the server takes back in the form it was printed in.               *)
Completable == conf.mode = "initial" => conf.store /\ conf.keys = "text"

(* A snapshot ends, whatever fails on the way, and streaming begins, if no *)
(* panic ends the process.                                                 *)
SnapshotLeadsToStream ==
  (phase = "snapshot" /\ Completable) ~>
    (phase \in {"select", "stopped", "panicked"} \/ cancelled)

(* The snapshot is a pipeline of two stages, in the sense of Pipeline: it  *)
(* reads in order, and saves no position further ahead.                    *)
P == INSTANCE Pipeline WITH
       Producers <- Producers, MaxEvents <- MaxRows, Void <- {},
       Depth <- 2, Rewinds <- TRUE, delivered <- delivered, dropped <- dropped,
       read <- Entered, done <- Left, mark <- Passed, top <- top

ImplementsPipeline == P!Spec
=============================================================================
