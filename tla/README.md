# CDC-Axon in TLA+

A verification development of CDC-Axon, the Go SDK in `src/` that relays change
events from PostgreSQL or MongoDB to message brokers. The questions it asks are
those a unit test of this code hardly reaches: what is acknowledged, and when,
while two goroutines, a database server, several brokers, retries and restarts
interleave.

## The system

| component | state it keeps | operations | talks to |
|---|---|---|---|
| Engine core, `engine/core/engine.go` | the program counter of `Start`/`run`; the goroutines and the `errCh` of `connectProducers`; the goroutines of `publishAll`; the event in `processEvent` | `Start`, `run`, `connectProducers`, `closeProducers`, `runSnapshot`, `streamEvents`, `processEvent`, `publishAll`, `applyTransforms` | calls the source's `DBConnect`, `CaptureEvents`, `Ack`, `Close`, the producers' `Connect`, `Publish`, `Close`, the transforms; receives from the channels of source and snapshot |
| Postgres connection, `source/postgres/source/connection.go` | `pgConn`; on the server the slot and who holds it | `DBConnect`, `ensureSlot`, `startReplication`, `Close` | the server |
| Postgres capture, `source/postgres/source/eventsManager.go` | the capture goroutine, its unbuffered channel | `CaptureEvents`, `Ack` | shares `ClientLSN`, `PendingLSN` and `pgConn` with the engine's goroutine, without a lock |
| WAL handlers, `source/postgres/walHandlers/handlers.go` | `ClientLSN`, `PendingLSN`, the relation cache | `HandleMessage`, `handleKeepalive`, `handleXLogData`, `buildEventFromTuple`, `SendStatus` | the server, the persistence store |
| Snapshot engine and snapshots, `engine/snapshot`, `source/*/source/snapshot.go` | two chained unbuffered channels, a forwarding goroutine, cursor and done marker in the store | `SyncSnapshot` | engine, database, store |
| Mongo source, `source/mongo` | the change stream, the resume token in the store | `DBConnect`, `CaptureEvents`, `Ack`, `Close`, `stream.Open` | MongoDB, the store |
| Transforms, `engine/transform/transform.go` | `Deduplicate`: keys in a store; `RateLimit`: a token bucket; `SampleRate`: a counter | one function per transform | dedup and enrichment stores |
| Metrics, logger, event and configuration types | nothing that decides anything | | |

What is hard, and for which part:

- *Two goroutines and a wire.* The capture goroutine reads ahead of the engine
  by up to one event and moves the LSNs that `Ack` uses. The server forgets a
  transaction as soon as the slot passes its commit record.
- *Failure and retry.* Any error unwinds `run` through two deferred calls and
  starts again after a backoff, with some state surviving in the process and
  other state only on the server or in the store.
- *Fan-out.* One of several publishes fails; a `Connect` hangs or returns late.
- *Shutdown* can come at any point, and the goroutines are not joined.

What makes each part correct: the engine acknowledges only settled events,
starts every run clean, comes back after every error and stops when cancelled;
the Postgres source never lets the slot pass an unpublished event (it does, see
below), keeps the order of the commits, never wedges, and lets the server free
its log; a snapshot publishes every row before its cursor or marker passes it;
the Mongo token never passes an unpublished change; a transform that drops an
event does so only when that is safe.

## Modules

| module | what it is |
|---|---|
| `Delivery` | abstract: a log relayed one event at a time, published to every producer or dropped, confirmed last |
| `Pipeline` | abstract, and weaker: a reader that runs up to `Depth` events ahead of the engine, and a saved position that follows the reader |
| `Engine` | `engine.go`, with the source side open: no specification of its own, each action that calls the source is completed by a relay module |
| `ContractRelay` | `Engine` over a source that keeps the `EngineSource` contract to the letter; implements `Delivery` |
| `FilterRelay` | `ContractRelay` with `Deduplicate` and `SampleRate` as its transform chain |
| `PgRelay` | `Engine` over the Postgres source and the server's walsender |
| `SnapshotRelay` | `Engine` with a snapshot bound: `runSnapshot`, the snapshot engine, the snapshots of both sources; implements `Pipeline` |
| `MongoRelay` | `Engine` over the MongoDB source and its change stream; implements `Pipeline` |
| `RelationCache` | the relation cache of the WAL handlers and how a tuple becomes an event |
| `Transforms` | the transforms without memory, and chains of them |
| `RateLimit` | the token bucket over discrete time |
| `ContractRelayProofs`, `FilterRelayProofs`, `PgRelayProofs`, `SnapshotRelayProofs`, `MongoRelayProofs`, `RelationCacheProofs` | theorems about the module each is named after |
| `TransformsProofs` | theorems about `Transforms` and `RateLimit` |
| `EngineProofs` | lemmas about the engine over any source, and about finite sets, that those share |
| `MC...` | instances for TLC |

### Engine

`phase` is the program counter of the goroutine that runs `Start`:

    connect    source.DBConnect                  transform   applyTransforms
    dialing    connectProducers' select loop     publishing  publishAll, until wg.Wait
    capture    source.CaptureEvents              acking      source.Ack
    select     streamEvents' select              unwind      deferred closeProducers
    snapshot   runSnapshot's receive loop        closing     deferred source.Close
    failed     Start, after a failed run         backoff     backoff.Wait
    stopped    Start has returned                panicked    a goroutine has panicked

`dial[p]` is the goroutine of producer `p`'s `Connect` together with its slot in
the buffered `errCh`, so it can outlive `connectProducers`; `pub[p]` likewise
for `publishAll`. A failed publish may or may not have reached the broker. A
call that takes `ctx` can fail at any time once the context is done (`Fails`);
every other failure is counted in `faults` and bounded by `MaxFaults`. Events
are model values or numbers; the transform chain is what the properties can
tell apart: it keeps an event, fails, or drops one of `Droppable`. Metrics and
logging are left out. `Crash` covers a process that dies and one that is
started again after `Start` returned: everything in memory is reset, what the
brokers have stays.

### ContractRelay

`produced`, `confirmed` and `pos` are the log, the durable bookmark and the
cursor of the current stream. `Capture` resumes after the bookmark, `AckDone`
moves it to the event just processed, and an `Ack` that returns an error may
have taken effect (`AckRefused`). This is the contract that `engine.go`'s
comments rely on; a source that does not keep it is `PgRelay`'s business.

### PgRelay

The log is a constant `Wal`: transactions in commit order, each with the LSN of
its first record, its rows with `WALStart` and message length, and the start
and end of its commit record; transactions may overlap. The walsender (external,
modelled from the replication protocol the code speaks) streams Begin, Relation
once per session, the rows, Commit; it resumes with the first transaction whose
commit record is at or after the slot; a keepalive carries a position between
the last transaction it sent and the commit record of the one it is about to
send or is sending; Relation messages carry no `WALStart`; a status of 0 is
ignored. `SlotMayRegress` tells whether the server accepts a status below the
slot's position (older releases do).

| in the model | in the code |
|---|---|
| `DBConnect`, `ReplicationStarted`, `SlotActive`, `DBConnectFailed` | `DBConnect`: connect and `ensureSlot`; one attempt of `startReplication` that succeeds, or meets 55006; any other error |
| `cap` = `recv`, `send`, `reply`, `done` | the goroutine in `ReceiveMessage`, in `ch <- result.Event`, before `if result.Reply`, after `close(ch)` |
| `ReceiveBegin`, `ReceiveRelation`, `RelationNotSaved`, `ReceiveRow`, `ReceiveCommit`, `ReceiveKeepalive` | `HandleMessage` by message: which LSN it sets, whether it yields an event, whether a reply follows |
| `ReceiveTimeout`, `ReceiveError`, `Reply`, `HandOver` | the rest of the loop |
| `AckAssigns`, `AckDone`, `AckRefused` | the two statements of `Ack`, as two steps: the capture goroutine may run between them |
| `ProcessDies`, `WireCut`, `ReleaseSlot` | a new process with zero LSNs; the network or `wal_sender_timeout`; the server noticing that a walsender's client is gone |

Two abstractions to know about. A status that is sent on a live wire reaches
the server at once: a status still in flight when the connection dies is one
that `WireCut` came before. And `RetryAfterBackoff` assumes that the backoff (a
second or more) outlasts a capture goroutine that finds its connection closed;
one blocked in its send is left behind for ever, as in the code.

### SnapshotRelay

A *session* is what one call of `runSnapshot` starts: the goroutine that runs
`SyncSnapshot` and the one that forwards from `tracked` to `snapshotCh`. When
`processEvent` fails, `runSnapshot` returns and leaves its session behind, still
reading, saving its cursor and marking the snapshot as done while the next run
has a session of its own. So there is a `reader` for each of `MaxFaults + 1`
sessions, and `sess` is the one the present run receives from.

| in the model | in the code |
|---|---|
| `reader[s].at` = `check`, `open`, `query`, `fetch`, `send`, `save`, `finish`, `mark`, `leave`, `ended` | where `SyncSnapshot` is: mode and done marker; connecting and loading the cursor; the query of a batch; `rows.Next`; `ch <- ev`; saving the cursor; deleting it; storing the done marker; returning; `close(snapshotCh)` done |
| `key`, `pos`, `hi` | `lastKey`; the last row returned; the last row of the batch |
| `fw` | the row in the forwarding goroutine, between its receive from `tracked` and its send to `snapshotCh` |
| `Forward`, `HandOver` | the two unbuffered channels: a send meets its receive in one step |
| `PgQuery`, `PgQueryRejected`, `MongoFind` | the keyset query; a uuid in its printed form is rejected by the server; an ObjectID compared with a string |
| `LastKey` | the event's ID as the key; empty if the primary key was given in another letter case than its column has |
| `CloseChannels` | `close(tracked)`, `close(snapshotCh)`: with a row still in the forwarding goroutine its send panics, and the process is gone |
| `Check`, `Open` with a failure | an error of `Load` is ignored, so it counts as "nothing stored" |
| `Disconnected` | the Mongo snapshot uses the client that `Close` disconnects; the Postgres one has its own connection |

The configuration (`conf`: database, mode, store, and how a printed key
compares) is chosen once from `Settings`. The stream that follows
the snapshot is quiet: what is asked is whether it begins, and when. A row is
its number in key order, and the table does not change.

### MongoRelay

`token` is the stored resume token, `seen` the position of `s.cs`, `cap` the
capture goroutine. A stream opened without a token begins behind everything
that is in the oplog (`CaptureFromNow`, the source's own comment at
`eventsManager.go:21-23`); the history variable `missed` keeps what was left
out, `began` where the first stream started. `NextChange` skips what does not
decode. `Ack` reads `ResumeToken()` from the stream, which the capture goroutine
may have moved on (`SavedToken`); without a store it does nothing. A goroutine
left behind by a failed run blocks in its send or ends, and saves nothing, so
only the present one is kept.

### FilterRelay, RateLimit, Transforms

`FilterRelay` replaces the arbitrary chain of `ContractRelay` by `Deduplicate`
followed by `SampleRate(n)`: `keys` are the saved IDs, `counter` the counter
modulo `n`. `Expire` is the end of a key's time to live. A run that fails after
the chain has run sends the event through it again. `DedupLossBounded` is about
the first, `SampleShare` about the second; `sampledOut` tells the two apart.

`RateLimit` counts time in ticks. A token is `Grain` units and a unit is
refilled per tick, so the `float64` arithmetic becomes that of integers and one
event per `Grain` ticks is the configured rate. A caller waits outside the lock
with a timer `wake[c]`, then sets the tokens to 0 without touching `last`, as
the code does.

`Transforms` runs a chain (`applyTransforms`) over an event of which it keeps
the type, the operation, the headers and the numbers of an object payload.
`Decoded` is what JSON decoding into `float64` and encoding again does to an
integer: `Nearest` rounds to the nearest `float64`, ties to even, which beyond
`MaxExact` (2^53) are 2, 4, 8 ... apart (`Spacings`), and `Printed` is what the
encoder prints of it, the shortest decimal that reads back as the same
`float64`. The module assumes of `Printed` only that it reads back
(`NumberAssumption`); `MCTransforms` defines it. A sign changes nothing and is
left out; so are fractions, which of up to 15 digits are printed as they were
read. `EnrichFromStore` finds data, finds none or fails, and keeps the event in
each case.

### RelationCache

The log is a sequence of row changes, each with the columns its table had at
that time. A new session of the walsender has sent no relation (`sent`), sends
one before the first row of a table and whenever the columns differ, and
rewinds to any change not after the last. `relations` survives the session,
`stored` the process. `ReceiveRow` finds the relation (cache, then store, else
an error that ends the session), pairs values with column names by position,
and panics if a value has no column. `RelationNotSaved` is a `Save` that fails
after the cache was written. NULL and unchanged out-of-line values are skipped
alike. Since a server sends the relation again in every session, the stored
copy is never needed for decoding; `persistor` says whether there is a store.

## Runs

| run | instance | shows |
|---|---|---|
| `contract` | 3 events (one droppable), 2 producers, 3 faults; `Connect` may hang | `TypeOK`, `AtLeastOnce`, `RetryStartsClean`, `CancelStops`, `EventuallyConfirmed` (if `Connect` does not hang), and the refinement `ImplementsDelivery` |
| `pg_safety` | 3 overlapping transactions, 5 events (one droppable, one without an id), 2 faults, 2 tries | `TypeOK`, `LossBounded`, `AckNeverRunsAhead`, `InCommitOrder` |
| `pg_liveness` | 2 transactions, 4 events, 1 fault | `EventuallyDealtWith`, `SlotCatchesUp` |
| `pg_commit` | no faults | *violated*: `AtLeastOnce` |
| `snapshot_safety` | 5 rows in batches of 3 (one droppable), 2 producers, 1 fault; Postgres: Never, Initial with and without a store and with uuid keys; MongoDB: Always with and without a store | `TypeOK`, `LossBounded`, `SnapshotBeforeStream`, `KeyOrder`, and the refinement `ImplementsPipeline` |
| `snapshot_liveness` | 3 rows in batches of 2, 1 fault; besides, keys that print as the empty string, and ObjectIDs | `SnapshotLeadsToStream` |
| `snapshot_panic` | 2 rows, no faults | *violated*: `NeverPanics` |
| `mongo` | 5 changes (one droppable, one undecodable), 2 faults, with and without a store | `TypeOK`, `LossBounded`, `InOplogOrder`, `EventuallyDealtWith`, and the refinement `ImplementsPipeline` |
| `filter` | 4 events, two of one ID, `SampleRate(2)`, 2 producers, 2 faults | `FilterTypeOK`, `DedupLossBounded`, `SampleShare`, `EventuallyConfirmed` |
| `rate` | 1 caller, bucket of 2 tokens, 3 ticks per token, 12 ticks | `TypeOK`, `TwiceTheRate` |
| `transforms` | 24 events, every chain of up to 3 of 10 transforms | `KeptIfNoFilterRefuses`, `LastWriterWins`, `MaskedFieldsHidden`, `OtherFieldsKept` |
| `relation` | 6 changes of 2 tables, 4 sets of columns, an UPDATE with an unchanged out-of-line payload, 3 faults, with and without a store | `TypeOK`, `EventsCarryRows`, `StoreKeepsUp`, `EveryRowRead` |

The bounds. Two producers are the least for which one publish or one `Connect`
can fail while another succeeds or is under way. Three events give one behind,
one in hand and one ahead. Three faults let a retry fail again and leave one for
a restart. For Postgres, the first transaction has two rows so that an event can
be acknowledged inside it, the second begins before the first commits, and the
third is there to be wrongly passed; one producer is enough, because the fan-out
is settled in `ContractRelay`. Two faults bind `LossBounded` at two of its three
levels: three events could be exposed where two are allowed. `MaxTries` is 2
instead of 10: one try that fails and one that gives up. Nothing cuts off a
counter that the code leaves unbounded other than `MaxFaults` and the length of
the log.

A table of five rows in batches of three has a full batch, a short one and the
empty one that ends it, and is longer than the two rows a failure may skip by
more than one batch; one fault is enough for a session left behind next to a new
one, or for a restart in the middle. The panic of `CloseChannels` ends the
process, and a new one starts at the expense of nothing more, so the panic
itself is not a fault: that is why `LossBounded` allows two rows more than two
per fault. Five changes of the oplog leave room for an undecodable one between
the one in hand and the one ahead, and for a restart on either side of it. One
producer is enough again.
`Deduplicate` needs two events of one ID with one of another between them, and
two faults so that a loss can follow a loss. Twelve ticks are four tokens on top
of the two the bucket holds: enough for two waits in a row, of which the second
is cut short by the first. Three transforms are one that acts, one before and
one behind it. Three sets of columns give a column fewer, a column more and
another order; three faults allow a lost session, a failed `Save` and a restart
in one behaviour.

Fairness. `WF(Main)`: the goroutine of `Start` is scheduled, and the calls it
makes return. `WF` of each publish and of each dial; in `ContractRelay` that
`Connect` returns (`DialsReturn`) is a hypothesis of `EventuallyConfirmed`, and
`CancelStops` does without. For Postgres also: `WF` of the server releasing a
dead walsender's slot (TCP or `wal_sender_timeout` detects it), of the capture
goroutine's reply and of its noticing a dead connection; `SF` of receiving
changes, since keepalives on the same stream cannot overtake them for ever, and
of keepalives and time-outs, which recur on a quiet stream every
`wal_sender_timeout`/2 and ten seconds. For the snapshot `WF` of each session's
goroutines: databases answer, or the call fails. For MongoDB `WF` of the capture
goroutine taking a change that is there, or noticing that the context is done
(`CaptureProceeds`): `cs.Next` may wait for ever on a quiet stream, and no
stream has to break, so `EventuallyDealtWith` speaks of runs without a failure
too. For `RelationCache` `WF` of a session that is opened again and of its
messages. No fairness is put on commits, cancellation or faults: a failure is an
action of its own (`StreamBroken`, `WireCut`, `ProcessDies`), or another outcome
of a call that may also succeed. Crashes and cuts are finitely many.

### What the violated runs show

- `pg_commit`. The channel between the goroutines is unbuffered, so once the
  engine has taken the last event of a transaction the capture goroutine reads
  the Commit message, sets `ClientLSN` to its end (`handlers.go:190`) and
  replies. The slot has then passed an event that is still being published. If
  that publish fails or the process dies, the server never sends the event again.
  `README.md:28` says the LSN only advances after a successful publish, and
  `eventsManager.go:107` that the server resends. `LossBounded` says how bad it
  can get: one event per failure.
- `snapshot_panic`. `close(snapshotCh)` runs as soon as `SyncSnapshot` returns,
  while the forwarding goroutine may still be in its send on that channel. On
  cancellation, and at the end of every snapshot whose last publish is slow, the
  process panics instead of exiting cleanly (`engine.go:72`).

### What the passing runs leave room for

Several of the checked properties are weaker than what one might wish for,
because the code does less. Where, and why:

- `AckNeverRunsAhead` holds for a log in which no message is longer than the
  distance to the next commit record. An event's LSN is `WALStart` plus the
  length of the *decoded* message (`handlers.go:108`); a value that is compressed
  in the log is longer decoded, so acknowledging it can confirm later
  transactions that have not been read. The same overshoot, of a Commit message,
  reaches a commit record that directly follows another.
- `LossBounded` of `SnapshotRelay`: a batch's cursor is saved when its last row
  has been taken by the forwarding goroutine, at which time the row before it may
  still be being published.
- `Completable` and the settings of `snapshot_safety`: keys are kept in the form in
  which Go prints them. For a uuid the second query is an error, in every run,
  and streaming never begins; an empty one repeats the first batch for ever; and
  an ObjectID is greater than no string, so the second batch is empty and the
  stream begins without the rest of the collection.
- `LossBounded` and `EventuallyDealtWith` of `MongoRelay`: `Ack` saves the token of
  the stream, which the capture goroutine may have moved to the next change; and
  a stream opened before the first `Ack`, or after a failed `Load`, begins "from
  now".
- `DedupLossBounded`: `Deduplicate` saves its key before the event is published, so
  an event that is resent after a failed publish is a duplicate of itself. The
  key is the row's id, so a second change of the same row is a duplicate as well.
- `TwiceTheRate`: the time spent waiting is credited again by the next call.
- `OtherFieldsKept`: `MaskField` passes every number through a `float64` and prints
  it with the fewest digits, so a 64-bit id beyond 2^53 changes, by 2 at most
  around 2^53 and by up to 2^12 around 2^64.
- `EventsCarryRows`: an UPDATE has an empty payload when the server did not send it
  because it is stored out of line and did not change.
- `RetryStartsClean` is about runs that are retried: a `Connect` that succeeds after
  `connectProducers` left through `ctx.Done()` leaves its connection open when
  `Start` returns.

## Proofs

`ContractRelayProofs` proves, for every non-empty set of producers, every length
of the log and every number of faults, from the assumptions
`EngineAssumption`, `LogAssumption` and `NoSnapshotAssumption`:

- `TypeCorrect`: `Spec => []TypeOK`. `TypeOK` is not inductive: a publish that
  returns adds `cur` to `delivered`, and only `EventInHand` (an event is in hand
  while `processEvent` runs, and no publish runs outside `publishAll`) says that
  `cur` is an event. `TypeInv` is the conjunction.
- `DeliveredAtLeastOnce`: `Spec => []AtLeastOnce`, from `StreamInv`: while the
  engine waits, the stream's cursor is level with the bookmark; while an event
  is in hand it is one ahead and points at that event; an event about to be
  acknowledged is settled. Without the cursor clause an `Ack` could skip.
- `RetriesStartClean`: `Spec => []RetryStartsClean`, from `CleanupInv`: `Connect`
  goroutines outlive `connectProducers` only when the context is done, and then
  `Start` returns instead of retrying.
- `RelayImplementsDelivery`: `Spec => ImplementsDelivery`, step simulation under
  `TypeInv` and `StreamInv`.

`StepCases` splits a step of `Next` into the code's actions once, and each proof
has one case per action after it. The Boolean variables have an invariant of
their own (`FlagsStep`), because the two solvers divide the work there.

`FilterRelayProofs` proves, from `ChainAssumption` as well:

- `FiltersRefineRelay`: `FilterSpec => Spec`. Whatever `Deduplicate` and
  `SampleRate` do is something the chain of `ContractRelay` may do, so its
  safety properties hold here; `FilteredAtLeastOnce` is one of them.
- `FilterTypeCorrect`: `FilterSpec => []FilterTypeOK`.
- `DedupLosesOnePerFailure`: `FilterSpec => []DedupLossBounded`. That no more
  IDs are lost than there were failures is not inductive, for an ID is lost long
  after the failure: when the resent event has been dropped and acknowledged.
  `CountInv` counts it when it can no longer be saved: `Counted` adds the IDs
  whose key is saved but for which nothing is published or under way, and the one
  that waits for its acknowledgement. A publish that has failed costs one in
  advance (third conjunct), and a run that fails because it is cancelled is
  granted one until the restart pays for it (`Allowed`). Steps that count nothing
  new are dealt with together (`CalmKeeps`); the others one by one.
- `SampleKeepsItsShare`: `FilterSpec => []SampleShare`, for every `n`. The shares
  are a quotient of two counts over the log; the invariant is about `Balance`, `n`
  for each event published less one for each seen, which without failures would
  be the counter with its sign turned. `Level` says how far the sum of balance
  and counter may drift between two attempts: up by one, and down by `n - 1`, per
  failure. What an earlier attempt has already done for the next event
  (`Standing`: published, or sampled out) is counted ahead, since nothing undoes
  it; `AheadInv` says that there is no such event but the next. While an event is being
  published it is charged to the failures in advance, and a failed attempt has
  to pay (`Charged`, `Paid`), unless it failed because it was cancelled: then it
  is excused until the restart pays. One arithmetic lemma for each kind of step
  (`Decides`, `Publication`, `Acknowledgement`, `Restarted`) keeps products of
  variables out of the steps, and `ShareOfBalance` returns to the quotient.

`TransformsProofs` proves `KeptIfNoFilterRefuses`, `MaskedFieldsHidden`,
`LastWriterWins` and `OtherFieldsKept` for chains of any length, any events and any
store: `FiltersDecide`, `MasksHold`, `LastWriters`, `OthersKept`. Each invariant
speaks of the transforms before `at`. `OthersKept` is about all
64-bit integers: `NearestNear` bounds the distance to the nearest `float64` by one
part in `MaxExact`, and what is printed has the same `float64` nearest to it, so
both errors together are one part of the sum of the two values. They do not add
up along a chain, because what was printed is printed again (`RoundedOnce`).
`NumberAssumption` says of `encoding/json` that what it prints reads back, and
prints exact integers as they are.

Of `RateLimit` it proves, for every rate and any length of time:

- `RateTypeCorrect`: `RateSpec => []TypeOK`, for any number of callers.
- `RateIsBounded`: `RateSpec => []TwiceTheRate`, if there is one caller
  (`OneCaller`, as in the engine, whose `processEvent` runs one at a time). Several
  callers that wait at once all wait for the same token and then all pass, so
  without it the bound fails. `BucketInv` is an account for every event that has
  passed: what has passed since then and what the bucket holds cost no more than
  a full bucket, one event, and twice the time since; `WaitInv` ties the timer to
  the tokens that were there.

`RelationCacheProofs` proves, for every log: `TypeCorrect`; `StoreLevel`, that
`StoreKeepsUp` holds; and `RowsDecoded`, that every event carries what was sent
of its row. The invariant is that during a session the
cache has the columns that the session was told.

`EngineProofs` has no theorem of its own to report. It names the steps a source may
make the engine take (`EngineStep`) and those it takes by itself (`OwnStep`), and
proves of them once what every relay needs: types, `InHand` (which event is in
hand in which phase), that nothing delivered is undone and that only the event
in hand is delivered, and that the failures counted never decrease. Its other
half is counting: a subset is no larger, one more element is one more.

`PgRelayProofs` proves, for every log, number of producers and number of failures,
from `EngineAssumption`, `WalAssumption` (the shape of a log) and
`NumberingAssumption` (events are rows, numbered in commit order):

- `TypeCorrect`: `Spec => []TypeOK`, with `CaptureInv` and `WireInv`: the capture
  goroutine has an event exactly when it is at the channel, and the walsender is
  within a transaction of the log.
- `AckKeepsBehind`, `EventsStayInOrder` and `LossIsBounded`: the action properties
  `AckNeverRunsAhead` and `InCommitOrder` and the invariant `LossBounded`. They
  have one hypothesis, `MessagesFit`: no message is longer than the distance to
  the next commit record. That is not so of every log (see `AckNeverRunsAhead`
  above), so it is no assumption of the module but stands in the statements;
  the log of `MCPgRelay` has it, and `TLC` checks that. Where it fails a
  confirmed LSN may lie behind a later commit, and nothing bounds how many
  transactions that skips.

  The invariant `IInv` adds to the types: where the LSNs may be relative to what
  the walsender has sent (`PositionInv`, `LsnInv`), that the event at the channel
  is the last one read and follows the one in hand (`OrderInv`), and what a run
  that has not connected yet still has of the one before (`FreshInv`). The loss is
  counted before it happens: `Exposed` is every unsettled event some LSN in
  memory, or the slot, has already gone past; `CountInv` bounds it by `faults`,
  with one in advance for a publish that has failed (`Failing`) and one granted
  to a cancelled run until the restart pays for it (`Excused`). A loss that is
  counted only when the slot moves is not inductive: the reply that moves it
  comes long after the failure.

`MongoRelayProofs` proves the same of the change stream for every oplog,
from `EngineAssumption` and `OplogAssumption`: `TypeCorrect`, `LossIsBounded`,
`ChangesStayInOrder` (`InOplogOrder`) and `StreamImplementsPipeline`, the
refinement of `Pipeline`, one kind of step at a time. `OrderInv` is the key: the
changes between the one in hand and the one at the channel are undecodable.

`SnapshotRelayProofs` proves, for every table, batch size, number of producers and
number of failures, and so of sessions left behind, from `EngineAssumption`,
`TableAssumption` and `BoundAssumption`:

- `TypeCorrect`: `Spec => []TypeOK`, for all settings. A run that starts a snapshot
  picks a session that is free, and that there is one is part of the proof:
  `BusyInv` counts the sessions that are left behind and still running, never
  more than there were failures.
- `LossIsBounded`, `RowsStayInOrder`, `StreamWaitsForTable` and
  `SnapshotImplementsPipeline`: the invariants `LossBounded` and
  `SnapshotBeforeStream`, the action property `KeyOrder` and the refinement
  `ImplementsPipeline`. They have one hypothesis, `KeysReadBack`: the key that is
  saved is read back as that key, or refused by the server. Settings in which
  keys print as the empty string, or ObjectIDs are compared as strings, break
  it, and the properties with it (see above). So it is no assumption of the
  module but stands in the statements; TLC checks that the settings of
  `snapshot_safety` have it.

  The invariant `IInv` says of every session what `SyncSnapshot` has read and
  saved (`Sound`), that one that ends without an error has read the table
  (`Complete`), which row is in hand (`HandInv`), and that only a snapshot that
  was cut short leaves a session that has yet to read the cursor (`FreshInv`).
  A session that was left behind goes on saving, so the loss is again counted
  before it happens: `Exposed` is every unsettled row that the cursor has passed
  or some such session may still pass (`Savable`), and `CountInv` charges two
  for each failure, in advance for a publish that has failed.
  `CutShort` grants two until the restart pays: a cancelled snapshot, or a
  panic, is no failure of the environment. `TopInv` keeps every position within
  two rows of the furthest one that a run got to, which is what `Pipeline`
  asks. The refinement is proved one kind of step at a time (`Kinds`).

Only model-checked: liveness (`EventuallyConfirmed`, `EventuallyDealtWith`,
`CancelStops`, `SlotCatchesUp`, `SnapshotLeadsToStream`, `EveryRowRead`), which is out
of the proof system's reach, as is `ENABLED`. Every invariant, action property
and refinement that a passing run checks is stated by a theorem.

## Plan

What is left: lemmas that the proofs of `PgRelay`, `MongoRelay` and `SnapshotRelay` each
have in a form of their own, about what is exposed and who pays for it, could
move to `EngineProofs`; and the hypothesis `OneCaller` could give way to a bound
that grows with the number of callers, once TLC has shown which.

## Not modelled

Metrics and logging: no decision depends on them. The contents and formatting of
rows and documents beyond what is said above, among them rows that JSON cannot
express, which fail a snapshot in every run. The configuration structures. Real
time beyond the order of time-outs. Connections, goroutines and sessions that
leak without changing the protocol. The data races on `ClientLSN`, `PendingLSN`
and the stream's token are modelled as interleavings of whole reads and writes,
not as torn ones. A table that changes during its snapshot, and the gap between
a snapshot and a MongoDB stream opened without a token, which follows from
`CaptureFromNow`. The error of `GetProducers`, which both sources return for an
empty list of producers only: `Producers` is not empty (`EngineAssumption`). An
oplog that has been cut before the stored token.
